---------------------------- MODULE Spec2Model ----------------------------
(***************************************************************************)
(* Model of the Boreal gas-detector front-end: the real-time reading       *)
(* ingestion and alarm-state logic of the Main screen (src/Pages/Main.js)  *)
(* and of the guarded screen variant (first IndicatorApp of                *)
(* src/unnamed/part_000).                                                  *)
(*                                                                         *)
(* JavaScript values are records [t, n, s]: t is the kind ("undef",        *)
(* "null", "num", "nan", "bool", "str", "date", "obj"), n the number of a  *)
(* "num"/"bool" (or the instant of a "date"), s the characters of a "str". *)
(* A "date" value stands for a string that Date can parse (an ISO-8601     *)
(* text) and denotes the instant n.  Strings are sequences of one-         *)
(* character strings so that String(), Number(), toLowerCase() and         *)
(* includes() are computed, not assumed.                                   *)
(*                                                                         *)
(* React is modelled with batched updates: the state updates a handler     *)
(* makes are committed together in one render, and the passive effects     *)
(* (useEffect) whose dependencies changed run afterwards, in source order, *)
(* as the step RunEffects; their own updates are committed in a further    *)
(* render.  Event handlers run one at a time, between renders whose        *)
(* effects have been flushed.                                              *)
(***************************************************************************)
EXTENDS Integers, Sequences, FiniteSets, Bags, TLC

(***************************************************************************)
(* Bounds of the model.                                                    *)
(***************************************************************************)
\* Rows the history may hold in the specifications that enumerate histories
\* of different readings (Spec, SpecGuard).  SpecCap has no such bound.
MaxHist == 2
\* Requests of one kind (threshold fetch, status ping) that are in flight.
MaxInFlight == 1

(***************************************************************************)
(* JavaScript values.                                                      *)
(***************************************************************************)
Undefined == [t |-> "undef", n |-> 0, s |-> <<>>]
Null == [t |-> "null", n |-> 0, s |-> <<>>]
NaN == [t |-> "nan", n |-> 0, s |-> <<>>]
Num(n) == [t |-> "num", n |-> n, s |-> <<>>]
Bool(b) == [t |-> "bool", n |-> IF b THEN 1 ELSE 0, s |-> <<>>]
Str(s) == [t |-> "str", n |-> 0, s |-> s]
\* A string in a format Date parses, denoting the instant i (epoch units).
DateStr(i) == [t |-> "date", n |-> i, s |-> <<>>]
Obj == [t |-> "obj", n |-> 0, s |-> <<>>]

\* x ?? y
Nullish(v) == v.t \in {"undef", "null"}
Coalesce(a, b) == IF Nullish(a) THEN b ELSE a

\* Boolean(v)
Truthy(v) ==
  CASE v.t \in {"undef", "null", "nan"} -> FALSE
    [] v.t \in {"num", "bool"} -> v.n # 0
    [] v.t = "str" -> v.s # <<>>
    [] OTHER -> TRUE

Digits == <<"0", "1", "2", "3", "4", "5", "6", "7", "8", "9">>
IsDigit(c) == \E i \in 1..10 : Digits[i] = c
DigitVal(c) == (CHOOSE i \in 1..10 : Digits[i] = c) - 1
IsSpace(c) == c \in {" ", "\t", "\n"}

RECURSIVE TrimLeft(_)
TrimLeft(s) == IF s # <<>> /\ IsSpace(Head(s)) THEN TrimLeft(Tail(s)) ELSE s
RECURSIVE TrimRight(_)
TrimRight(s) ==
  IF s # <<>> /\ IsSpace(s[Len(s)]) THEN TrimRight(SubSeq(s, 1, Len(s) - 1)) ELSE s
Trim(s) == TrimRight(TrimLeft(s))

RECURSIVE DigitsValue(_, _)
DigitsValue(s, acc) ==
  IF s = <<>> THEN acc ELSE DigitsValue(Tail(s), 10 * acc + DigitVal(Head(s)))

\* Number(<string>): StringToNumber of the trimmed text; the empty text is 0,
\* an optionally signed run of decimal digits its value, anything else NaN.
\* (Fractions, exponents and hex literals do not occur in the model's inputs.)
StringToNumber(s) ==
  LET u == Trim(s)
      signed == u # <<>> /\ Head(u) \in {"-", "+"}
      d == IF signed THEN Tail(u) ELSE u
  IN IF u = <<>> THEN Num(0)
     ELSE IF d # <<>> /\ \A i \in 1..Len(d) : IsDigit(d[i])
          THEN Num(IF signed /\ Head(u) = "-" THEN 0 - DigitsValue(d, 0)
                   ELSE DigitsValue(d, 0))
          ELSE NaN

\* Number(v)
ToNumber(v) ==
  CASE v.t = "num" -> v
    [] v.t = "nan" -> NaN
    [] v.t = "null" -> Num(0)
    [] v.t = "bool" -> Num(v.n)
    [] v.t = "str" -> StringToNumber(v.s)
    [] OTHER -> NaN

RECURSIVE NatToString(_)
NatToString(n) ==
  IF n < 10 THEN <<Digits[n + 1]>>
  ELSE NatToString(n \div 10) \o <<Digits[(n % 10) + 1]>>

\* The text of an instant as toISOString() / a parseable date text spells it.
DateText(i) == <<"T">> \o NatToString(i)

\* String(v)
JsString(v) ==
  CASE v.t = "str" -> v.s
    [] v.t = "num" -> IF v.n < 0 THEN <<"-">> \o NatToString(0 - v.n)
                      ELSE NatToString(v.n)
    [] v.t = "nan" -> <<"N", "a", "N">>
    [] v.t = "null" -> <<"n", "u", "l", "l">>
    [] v.t = "undef" -> <<"u", "n", "d", "e", "f", "i", "n", "e", "d">>
    [] v.t = "bool" -> IF v.n = 1 THEN <<"t", "r", "u", "e">>
                       ELSE <<"f", "a", "l", "s", "e">>
    [] v.t = "date" -> DateText(v.n)
    [] OTHER -> <<"[", "o", "b", "j", "e", "c", "t", "]">>

IsNumberType(v) == v.t \in {"num", "nan"}
\* Number.isNaN(v)
NumberIsNaN(v) == v.t = "nan"
\* Number.isFinite(v): the model has no infinite numbers.
NumberIsFinite(v) == v.t = "num"

Upper == <<"A", "B", "C", "D", "E", "F", "G", "H", "I", "J", "K", "L", "M",
           "N", "O", "P", "Q", "R", "S", "T", "U", "V", "W", "X", "Y", "Z">>
Lower == <<"a", "b", "c", "d", "e", "f", "g", "h", "i", "j", "k", "l", "m",
           "n", "o", "p", "q", "r", "s", "t", "u", "v", "w", "x", "y", "z">>
UpperSet == {Upper[i] : i \in 1..26}
LowerOf == [c \in UpperSet |-> Lower[CHOOSE i \in 1..26 : Upper[i] = c]]
LowerChar(c) == IF c \in UpperSet THEN LowerOf[c] ELSE c
\* s.toLowerCase()
ToLowerCase(s) == [i \in 1..Len(s) |-> LowerChar(s[i])]
\* s.includes(sub)
Includes(s, sub) ==
  \E i \in 1..(Len(s) - Len(sub) + 1) : SubSeq(s, i, i + Len(sub) - 1) = sub

\* new Date(v): the instant, or NaN for an Invalid Date.
DateOf(v) ==
  CASE v.t = "date" -> Num(v.n)
    [] v.t = "num" -> Num(v.n)
    [] v.t = "null" -> Num(0)
    [] v.t = "bool" -> Num(v.n)
    [] OTHER -> NaN

\* arr.slice(0, n)
Slice(seq, n) == SubSeq(seq, 1, IF Len(seq) < n THEN Len(seq) ELSE n)


(***************************************************************************)
(* Telemetry envelopes, status payloads and API responses.                 *)
(***************************************************************************)
\* An object of readings is the sequence of its entries, in the order
\* Object.entries lists them; kind "undef" is an absent (or null) field and
\* kind "other" a value that is not an object (a string, a number).
ObjOf(entries) == [kind |-> "obj", entries |-> entries]
NoObj == [kind |-> "undef", entries |-> <<>>]
NonObj == [kind |-> "other", entries |-> <<>>]
Entry(k, v) == [k |-> k, v |-> v]

\* msg.payload: its own readings (entries), payload.params, the serial
\* fields and the timestamps payload.ts and payload.timestamp.  The field
\* names params, serial_number, serial, ts and timestamp are themselves
\* entries of a payload object; none of them is a PPM key.
Payload(kind, params, sn, serial, entries) ==
  [kind |-> kind, params |-> params, serial_number |-> sn, serial |-> serial,
   ts |-> Undefined, timestamp |-> Undefined, entries |-> entries]
NoPayload == Payload("undef", NoObj, Undefined, Undefined, <<>>)

\* The envelope of an mqtt_message event.
Msg(received_at, ts, sn, payload, params) ==
  [received_at |-> received_at, ts |-> ts, timestamp |-> Undefined,
   serial_number |-> sn, payload |-> payload, params |-> params]

\* The serial numbers of two devices: route.params.serialNumber is one of
\* them.
SN1 == Str(<<"S", "N", "1">>)
SN2 == Str(<<"S", "N", "2">>)

K_los_ppm == <<"l", "o", "s", "_", "p", "p", "m">>
K_PPM == <<"P", "P", "M">>
K_temp == <<"t", "e", "m", "p">>
S_abc == <<"a", "b", "c">>
S_los_ppm == K_los_ppm

GREEN == "#16b800"
STATUS_RED == "#ff2323"
ALARM_RED == "#b10303"
GRAY == "#888888"

\* The capacity of the history: slice(0, 1000).
N == 1000

VARIABLES
  \* ---- Main screen (src/Pages/Main.js) ----
  tableData,        \* useState: PPM rows, newest first
  connectionState,  \* useState: [color, serialNo]
  indicatorColor,   \* useState
  losReading,       \* useState: value shown in the big indicator
  threshold,        \* useState: Null or a number
  thresholdRef,     \* useRef
  losReadingRef,    \* useRef
  isFocusedRef,     \* useRef
  mounted,          \* the mount effects have run
  pending,          \* dependencies changed by the last commit whose effects
                    \* have not run yet
  fetchPending,     \* fetchThreshold calls awaiting their response
  pingPending,      \* /api/ping calls awaiting their response
  session,          \* "live", or "unmounted" once the screen is gone
  serialNumber,     \* route.params?.serialNumber
  currentView,      \* useState: 'live' | 'alarms'
  stalePings,       \* /api/ping calls awaiting their response that were
                    \* made for the other device, before the route changed
  cancelledFetches, \* fetchThreshold calls awaiting their response whose
                    \* effect has been cleaned up (cancelled = true)
  lastIngest        \* history variable: the envelope ingested by the last
                    \* handler that ran, whether the device was online, and
                    \* whether a threshold refresh that failed with a
                    \* threshold set was the last event but for envelopes;
                    \* note: why the last handler dropped its event, if it
                    \* did ("threw" when it raised an error), or "pushed"
                    \* when it applied a threshold push while a threshold
                    \* refresh was awaiting its response

mainVars == <<tableData, connectionState, indicatorColor, losReading, threshold,
              thresholdRef, losReadingRef, isFocusedRef, mounted, pending,
              fetchPending, pingPending, session, serialNumber, currentView,
              stalePings, cancelledFetches, lastIngest>>

\* the variables of the route and the view, and the requests of effects that
\* have been cleaned up
sessionVars == <<session, serialNumber, currentView, stalePings,
                 cancelledFetches>>

\* the device the route does not name
otherSerial == IF serialNumber = SN1 THEN SN2 ELSE SN1

VARIABLES
  \* ---- guarded variant (first IndicatorApp of src/unnamed/part_000) ----
  g_tableData,      \* useState: PPM rows, newest first
  g_losReading,     \* useState: value shown in the big indicator
  g_clearedSet,     \* clearedSetRef: fingerprints captured by Clear
  g_seenSet,        \* seenSetRef: fingerprints accepted in this session
  g_isFocused,      \* isFocusedRef
  g_skipFirst,      \* skipFirstRef
  g_now,            \* the client clock, in seconds
  g_last,           \* history variable: the last delivery that got past the
                    \* handler's early returns
  g_audit           \* history variable: the readings (envelope, key) now
                    \* visible, those that were visible at a Clear, and
                    \* whether no PPM reading was handled since the last Clear

guardVars == <<g_tableData, g_losReading, g_clearedSet, g_seenSet, g_isFocused,
               g_skipFirst, g_now, g_last, g_audit>>

VARIABLES
  \* ---- the push-stream socket of the Main screen (socket.io-client) ----
  socket,           \* [up, attempts, failed, closed]: connected or not,
                    \* the reconnection attempts that failed since the
                    \* transport closed, whether the manager has given up,
                    \* and whether the screen has disconnected it
  \* ---- Settings screen (src/Pages/Settings.js) ----
  s_open,           \* the screen is on the navigation stack
  s_onUpdate,       \* route.params.onUpdate is a function
  s_losPpm,         \* useState: the text of the input
  s_saving,         \* useState
  s_fetch,          \* fetchLosPpm awaits its response
  s_put,            \* [inflight, body]: the PUT awaiting its response
  s_log             \* history variable: what the last press of Submit or
                    \* Cancel has done so far: the alert shown, whether a
                    \* PUT was sent, whether onUpdate was invoked and with
                    \* what, whether the screen navigated back

VARIABLES
  \* ---- the root component (src/App.js) ----
  a_mounted,        \* "no" before the mount, "yes" while mounted, "gone"
                    \* after the unmount
  a_now,            \* Date.now(), in ms
  a_lastCheck,      \* lastForegroundCheckRef.current
  a_registered,     \* registeredRef.current
  a_tokenUnsub,     \* tokenRefreshUnsubscribeRef.current: 0 for null, else
                    \* the subscription its function removes
  a_messageUnsub,   \* messageUnsubscribeRef.current, likewise
  a_fcmToken,       \* useState
  a_calls,          \* the invocations of ensureRegistered that passed the
                    \* throttle, in order of their start: [pc, allowPrompt]
  a_tokenSubs,      \* messaging(): the onTokenRefresh handlers subscribed
  a_messageSubs,    \* messaging(): the onMessage handlers subscribed
  a_shown           \* history variable: the local notifications shown for
                    \* the last remote message

VARIABLES
  \* ---- the graph (src/Components/PpmGraph.js, src/unnamed/part_005) ----
  p_externalData,     \* the externalData prop
  p_timesAll,         \* useState
  p_valuesAll,        \* useState
  p_lastExternalLen,  \* lastExternalLenRef.current
  p_bufferTimes,      \* bufferTimesRef.current (part_005)
  p_bufferValues,     \* bufferValuesRef.current (part_005)
  p_arrived           \* history variable: the values placed in the buffer,
                      \* or put on display by a replace, since the last
                      \* clear() or replace, in order of arrival

VARIABLES
  \* ---- the entry module (src/index.js) ----
  i_platform,                  \* Platform.OS; "" before the module is
                               \* evaluated
  i_now,                       \* Date.now(), in ms
  permissionPromptInProgress,  \* module variable
  lastPromptAt,                \* module variable
  i_requests,                  \* the system permission requests awaiting
                               \* the user's answer
  i_alerts,                    \* the 'Enable Notifications' alerts on screen
  i_timers                     \* the pending reset timers: a bag of deadlines,
                               \* one per setTimeout call

socketVars == <<socket>>
settingsVars == <<s_open, s_onUpdate, s_losPpm, s_saving, s_fetch, s_put, s_log>>
appVars == <<a_mounted, a_now, a_lastCheck, a_registered, a_tokenUnsub,
             a_messageUnsub, a_fcmToken, a_calls, a_tokenSubs, a_messageSubs,
             a_shown>>
graphVars == <<p_externalData, p_timesAll, p_valuesAll, p_lastExternalLen,
               p_bufferTimes, p_bufferValues, p_arrived>>
indexVars == <<i_platform, i_now, permissionPromptInProgress, lastPromptAt,
               i_requests, i_alerts, i_timers>>
moreVars == <<appVars, graphVars, indexVars>>
sideVars == <<socketVars, settingsVars, moreVars>>
notAppVars == <<mainVars, guardVars, socketVars, settingsVars, graphVars,
                indexVars>>
notGraphVars == <<mainVars, guardVars, socketVars, settingsVars, appVars,
                  indexVars>>
notIndexVars == <<mainVars, guardVars, socketVars, settingsVars, appVars,
                  graphVars>>

vars == <<mainVars, guardVars, sideVars>>

(***************************************************************************)
(* Pure helpers of the Main screen.                                        *)
(***************************************************************************)
isPpmKey(key) ==
  IF key = <<>> THEN FALSE
  ELSE LET k == ToLowerCase(key)
           ppm == <<"p", "p", "m">>
           los == <<"l", "o", "s">>
       IN \/ Includes(k, ppm)
          \/ (Includes(k, los) /\ Includes(k, ppm))
          \/ k = ppm
          \/ Includes(k, ppm \o <<"v", "a", "l", "u", "e">>)

normalizePpmValue(v) ==
  IF Nullish(v) THEN Null
  ELSE IF IsNumberType(v) THEN v
  ELSE LET n == ToNumber(v) IN IF NumberIsNaN(n) THEN Null ELSE n

\* a > b on two numbers (false when either is NaN)
Gt(a, b) == a.t = "num" /\ b.t = "num" /\ a.n > b.n

\* Number.isFinite(Number(x)) ? Number(x) : null
FiniteOrNull(x) == IF NumberIsFinite(ToNumber(x)) THEN ToNumber(x) ELSE Null

\* prefer server received_at; fallback to ts numeric if present
serverReceivedAt(msg) ==
  IF Truthy(msg.received_at)
  THEN LET parsed == DateOf(msg.received_at)
       IN IF ~NumberIsNaN(parsed) THEN DateStr(parsed.n) ELSE Null
  ELSE IF ~Nullish(msg.ts)
       THEN LET parsed == DateOf(ToNumber(msg.ts))
            IN IF ~NumberIsNaN(parsed) THEN DateStr(parsed.n) ELSE Null
       ELSE Null

\* the object whose entries are read: payload.params, payload or msg.params
paramsOf(msg) ==
  IF msg.payload.kind = "obj"
  THEN IF msg.payload.params.kind = "obj" THEN msg.payload.params
       ELSE ObjOf(msg.payload.entries)
  ELSE IF msg.params.kind = "obj" THEN msg.params
  ELSE NoObj

msgSerialOf(msg) ==
  Coalesce(msg.serial_number,
           IF msg.payload.kind = "obj"
           THEN IF Truthy(msg.payload.serial_number)
                THEN msg.payload.serial_number ELSE msg.payload.serial
           ELSE Undefined)

ForOtherDevice(msg) ==
  LET msgSerial == msgSerialOf(msg)
  IN Truthy(msgSerial) /\ Truthy(serialNumber)
     /\ JsString(msgSerial) # JsString(serialNumber)

PpmEntries(params) == SelectSeq(params.entries, LAMBDA e : isPpmKey(e.k))

\* one row of newPpmRows (the id, a random list key, is left out)
RowOf(e, ts) ==
  LET numeric == normalizePpmValue(e.v)
  IN [TIMESTAMP |-> ts, INDICATOR |-> "Gas Finder-PPM",
      VALUE |-> IF numeric # Null THEN numeric ELSE e.v,
      rawKey |-> e.k, rawValue |-> e.v]

newPpmRows(msg) ==
  LET es == PpmEntries(paramsOf(msg))
  IN [i \in 1..Len(es) |-> RowOf(es[i], serverReceivedAt(msg))]

\* "update big indicator" for one entry: st = [los, color]
IndicatorStep(v, st, thrRef) ==
  LET numeric == normalizePpmValue(v)
      t == FiniteOrNull(thrRef)
  IN IF numeric # Null
     THEN [los |-> numeric,
           color |-> IF t # Null /\ Gt(numeric, t) THEN ALARM_RED ELSE GREEN]
     ELSE [los |-> v, color |-> st.color]

RECURSIVE IndicatorFold(_, _, _)
IndicatorFold(es, st, thrRef) ==
  IF es = <<>> THEN st
  ELSE IndicatorFold(Tail(es), IndicatorStep(Head(es).v, st, thrRef), thrRef)

\* the event came without a message: msg is undefined or null
Absent(msg) == msg = Undefined \/ msg = Null

\* the early returns without the focus gate
IngestedUnfocused(msg, focused) ==
  /\ ~Absent(msg)
  /\ serverReceivedAt(msg) # Null
  /\ paramsOf(msg).kind = "obj"
  /\ ~ForOtherDevice(msg)

\* whether the mqtt_message handler gets past its early returns
Ingested(msg, focused) ==
  /\ focused
  /\ ~Absent(msg)
  /\ serverReceivedAt(msg) # Null
  /\ paramsOf(msg).kind = "obj"
  /\ ~ForOtherDevice(msg)

\* the update without its slice(0, 1000)
PrependUncapped(rows, prev) == rows \o prev

\* the update with a replay guard: rows already in the history are replaced
PrependOnce(rows, prev) ==
  Slice(rows \o SelectSeq(prev, LAMBDA r : \A i \in 1..Len(rows) : rows[i] # r), N)

\* [...newPpmRows, ...prev].slice(0, 1000)
Prepend(rows, prev) == Slice(rows \o prev, N)

\* the alarms useMemo
alarms(rows, thr) ==
  IF Nullish(thr) THEN <<>>
  ELSE Slice(SelectSeq(rows, LAMBDA row :
               LET numeric == IF IsNumberType(row.rawValue) THEN row.rawValue
                              ELSE ToNumber(row.rawValue)
               IN IF NumberIsNaN(numeric) THEN FALSE ELSE Gt(numeric, thr)), N)

\* an alarms tab that renders the list whatever the threshold
AlarmViewListOnly(rows, thr) == [kind |-> "list", rows |-> alarms(rows, thr)]

\* what the alarms tab renders
AlarmView(rows, thr) ==
  IF thr = Null THEN [kind |-> "Threshold not set", rows |-> <<>>]
  ELSE [kind |-> "list", rows |-> alarms(rows, thr)]

IsOnline == connectionState.color = GREEN
Settled == mounted /\ pending = {}
\* the screen has not been unmounted
Live == session = "live"

\* no envelope was ingested by the last handler
NoMsg == Msg(Undefined, Undefined, Undefined, NoPayload, NoObj)
NoIngest == [msg |-> NoMsg, online |-> FALSE, fetchFailed |-> FALSE, note |-> ""]

(***************************************************************************)
(* Main screen: state after construction.                                  *)
(***************************************************************************)
MainInit ==
  /\ tableData = <<>>
  /\ connectionState = [color |-> STATUS_RED, serialNo |-> Null]
  /\ indicatorColor = GREEN
  /\ losReading = Null
  /\ threshold = Null
  /\ thresholdRef = Null
  /\ losReadingRef = Null
  /\ isFocusedRef = FALSE
  /\ mounted = FALSE
  /\ pending = {"threshold", "losReading", "connectionState"}
  /\ fetchPending = 0
  /\ pingPending = 0
  /\ session = "live"
  /\ serialNumber = SN1
  /\ currentView = "live"
  /\ stalePings = 0
  /\ cancelledFetches = 0
  /\ lastIngest = NoIngest

\* the dependencies a commit changed: setState with an equal value bails out
Changed(name, old, new) == IF old # new THEN {name} ELSE {}

(***************************************************************************)
(* The passive effects of one commit, in source order.                     *)
(***************************************************************************)
\* useEffect on [connectionState]: the colour it sets
ConnectionEffectColor(lastLos, thrRef) ==
  IF ~IsOnline THEN GRAY
  ELSE LET t == FiniteOrNull(thrRef)
       IN IF ~Nullish(lastLos) /\ ~NumberIsNaN(ToNumber(lastLos)) /\ t # Null
          THEN IF Gt(ToNumber(lastLos), t) THEN ALARM_RED ELSE GREEN
          ELSE GREEN

\* the recomputation with a non-strict comparison
RecomputeColorNonStrict(los, thr) ==
  IF Nullish(los) THEN ""
  ELSE LET numeric == IF IsNumberType(los) THEN los ELSE ToNumber(los)
       IN IF NumberIsNaN(numeric) THEN ""
          ELSE IF Nullish(thr) THEN GREEN
          ELSE LET t == ToNumber(thr)
               IN IF NumberIsNaN(t) THEN GREEN
                  ELSE IF ~Gt(t, numeric) THEN ALARM_RED ELSE GREEN

\* useEffect on [threshold, losReading]: the colour it sets, "" when it
\* returns without setting one
RecomputeColor(los, thr) ==
  IF Nullish(los) THEN ""
  ELSE LET numeric == IF IsNumberType(los) THEN los ELSE ToNumber(los)
       IN IF NumberIsNaN(numeric) THEN ""
          ELSE IF Nullish(thr) THEN GREEN
          ELSE LET t == ToNumber(thr)
               IN IF NumberIsNaN(t) THEN GREEN
                  ELSE IF Gt(numeric, t) THEN ALARM_RED ELSE GREEN

RunEffects ==
  /\ session # "unmounted"
  /\ ~mounted \/ pending # {}
  /\ LET deps == pending
         thrRef == IF "threshold" \in deps THEN threshold ELSE thresholdRef
         losRef == IF "losReading" \in deps THEN losReading ELSE losReadingRef
         conn == "connectionState" \in deps
         recompute == IF deps \cap {"threshold", "losReading"} # {}
                      THEN RecomputeColor(losReading, threshold) ELSE ""
         los == IF conn /\ ~IsOnline THEN Null ELSE losReading
     IN /\ thresholdRef' = thrRef
        /\ losReadingRef' = losRef
        /\ indicatorColor' = IF recompute # "" THEN recompute
                             ELSE IF conn THEN ConnectionEffectColor(losRef, thrRef)
                             ELSE indicatorColor
        /\ losReading' = los
        /\ tableData' = IF conn /\ ~IsOnline THEN <<>> ELSE tableData
        /\ pending' = Changed("losReading", losReading, los)
  \* on mount: focus tracking, fetchThreshold() and the initial ping
  /\ isFocusedRef' = IF mounted THEN isFocusedRef ELSE TRUE
  /\ fetchPending' = IF mounted THEN fetchPending ELSE 1
  /\ pingPending' = IF mounted THEN pingPending ELSE 1
  /\ mounted' = TRUE
  /\ UNCHANGED <<connectionState, threshold, lastIngest>>
  /\ UNCHANGED sessionVars
  /\ UNCHANGED <<guardVars, sideVars>>

(***************************************************************************)
(* socket.on('mqtt_message')                                               *)
(***************************************************************************)
\* what is noted of an envelope the handler does not ingest: "threw" when
\* the read of msg.received_at raises a TypeError (there is no message),
\* "focus" when the focus test drops it, "ts" when the timestamp test does,
\* "scope" when the serial filter does, nothing when the params test does
DropNote(msg, focused) ==
  IF ~focused THEN "focus"
  ELSE IF Absent(msg) THEN "threw"
  ELSE IF serverReceivedAt(msg) = Null THEN "ts"
  ELSE IF paramsOf(msg).kind # "obj" THEN ""
  ELSE "scope"

MqttMessage(msg) ==
  /\ Settled /\ Live /\ socket.up
  /\ UNCHANGED <<connectionState, threshold, thresholdRef, losReadingRef,
                 isFocusedRef, mounted, fetchPending, pingPending>>
  /\ UNCHANGED sessionVars
  /\ UNCHANGED <<guardVars, sideVars>>
  /\ IF Ingested(msg, isFocusedRef)
     THEN LET rows == newPpmRows(msg)
              st == IndicatorFold(PpmEntries(paramsOf(msg)),
                                  [los |-> losReading, color |-> indicatorColor],
                                  thresholdRef)
          IN /\ losReading' = st.los
             /\ indicatorColor' = st.color
             /\ tableData' = IF Len(rows) > 0 THEN Prepend(rows, tableData)
                             ELSE tableData
             /\ pending' = Changed("losReading", losReading, st.los)
             /\ lastIngest' = IF Len(rows) > 0
                              THEN [msg |-> msg, online |-> IsOnline,
                                    fetchFailed |-> lastIngest.fetchFailed,
                                    note |-> ""]
                              ELSE lastIngest
     ELSE /\ UNCHANGED <<losReading, indicatorColor, tableData, pending>>
          /\ lastIngest' =
               LET note == DropNote(msg, isFocusedRef)
               IN IF note = "" THEN lastIngest
                  ELSE [NoIngest EXCEPT
                          !.note = note,
                          !.msg = IF note = "ts" THEN msg ELSE NoMsg]

(***************************************************************************)
(* handlePingPayload: device_status, device_ping, ping_result, ping        *)
(***************************************************************************)
StatusPayload(sn, online, status) ==
  [serial_number |-> sn, serialNumber |-> Undefined, serial |-> Undefined,
   sn |-> Undefined, online |-> online, isOnline |-> Undefined,
   is_online |-> Undefined, status |-> status, up |-> Undefined]

S_online == <<"o", "n", "l", "i", "n", "e">>
S_offline == <<"o", "f", "f", "l", "i", "n", "e">>
S_true == <<"t", "r", "u", "e">>

payloadSerial(p) ==
  Coalesce(p.serial_number, Coalesce(p.serialNumber, Coalesce(p.serial, p.sn)))

payloadOnline(p) ==
  LET online == Coalesce(p.online, Coalesce(p.isOnline,
                  Coalesce(p.is_online, Coalesce(p.status, p.up))))
  IN IF online.t \in {"str", "date"}
     THEN LET s == ToLowerCase(JsString(online))
          IN s = S_online \/ s = S_true \/ s = <<"1">>
     ELSE IF IsNumberType(online) THEN online = Num(1)
     ELSE Truthy(online)

handlePingPayload(p) ==
  /\ Settled /\ Live /\ socket.up
  /\ lastIngest' = [NoIngest EXCEPT
                      !.note = IF Truthy(payloadSerial(p))
                                  /\ payloadSerial(p) = serialNumber
                               THEN "" ELSE "scope"]
  /\ IF Truthy(payloadSerial(p)) /\ payloadSerial(p) = serialNumber
     THEN /\ connectionState' =
               [color |-> IF payloadOnline(p) THEN GREEN ELSE STATUS_RED,
                serialNo |-> serialNumber]
          \* a new object every time: the effect on [connectionState] runs
          /\ pending' = {"connectionState"}
     ELSE UNCHANGED <<connectionState, pending>>
  /\ UNCHANGED <<tableData, indicatorColor, losReading, threshold, thresholdRef,
                 losReadingRef, isFocusedRef, mounted, fetchPending, pingPending>>
  /\ UNCHANGED sessionVars
  /\ UNCHANGED <<guardVars, sideVars>>

(***************************************************************************)
(* handleThresholdUpdated: socket.on('threshold_updated')                  *)
(***************************************************************************)
ThresholdMsg(sn, indicator, thr) ==
  [serial_number |-> sn, serialNumber |-> Undefined, indicator |-> indicator,
   threshold |-> thr]

\* the scope test without its device half
ThresholdMsgAnyDevice(m) ==
  /\ Truthy(m.indicator)
  /\ ToLowerCase(JsString(m.indicator)) = S_los_ppm

ThresholdMsgInScope(m) ==
  LET sn == Coalesce(m.serial_number, m.serialNumber)
  IN /\ Truthy(sn)
     /\ JsString(sn) = JsString(serialNumber)
     /\ Truthy(m.indicator)
     /\ ToLowerCase(JsString(m.indicator)) = S_los_ppm

handleThresholdUpdated(m) ==
  /\ Settled /\ Live /\ socket.up
  /\ lastIngest' = [NoIngest EXCEPT
                      !.note = IF ~ThresholdMsgInScope(m) THEN "scope"
                               ELSE IF fetchPending > 0 THEN "pushed"
                               ELSE ""]
  /\ IF ThresholdMsgInScope(m)
     THEN LET n == IF IsNumberType(m.threshold) THEN m.threshold
                   ELSE ToNumber(m.threshold)
              lastLos == losReadingRef
              thr == IF NumberIsNaN(n) THEN Null ELSE n
          IN /\ threshold' = thr
             /\ thresholdRef' = thr
             /\ indicatorColor' =
                  IF ~NumberIsNaN(n) /\ ~Nullish(lastLos)
                     /\ ~NumberIsNaN(ToNumber(lastLos))
                  THEN IF Gt(ToNumber(lastLos), n) THEN ALARM_RED ELSE GREEN
                  ELSE indicatorColor
             /\ tableData' = <<>>
             /\ pending' = Changed("threshold", threshold, thr)
     ELSE UNCHANGED <<threshold, thresholdRef, indicatorColor, tableData, pending>>
  /\ UNCHANGED <<connectionState, losReading, losReadingRef, isFocusedRef,
                 mounted, fetchPending, pingPending>>
  /\ UNCHANGED sessionVars
  /\ UNCHANGED <<guardVars, sideVars>>

(***************************************************************************)
(* fetchThreshold: the response of GET /api/thresholds/<serial>            *)
(***************************************************************************)
\* kind: "ok" (response.ok, data parsed), "notok" (response.ok false),
\* "error" (fetch or json() rejects)
FetchResponse(kind, isObject, los_ppm) ==
  [kind |-> kind, isObject |-> isObject, los_ppm |-> los_ppm,
   losPpm |-> Undefined, los_ppm_value |-> Undefined]

\* fetchThreshold leaving the threshold as it was when the request fails
fetchThresholdDoneStale(r) ==
  /\ Settled /\ Live
  /\ lastIngest' = [NoIngest EXCEPT
                      !.fetchFailed = r.kind # "ok" /\ threshold # Null]
  /\ fetchPending > 0
  /\ fetchPending' = fetchPending - 1
  /\ IF r.kind = "ok"
     THEN LET losRaw == IF r.isObject
                        THEN Coalesce(r.los_ppm,
                               Coalesce(r.losPpm, Coalesce(r.los_ppm_value, Null)))
                        ELSE Null
              los == IF Nullish(losRaw) THEN Null ELSE ToNumber(losRaw)
              thr == IF NumberIsFinite(los) THEN los ELSE Null
              lastLos == losReadingRef
              t == FiniteOrNull(los)
          IN /\ threshold' = thr
             /\ thresholdRef' = thr
             /\ indicatorColor' =
                  IF ~Nullish(lastLos) /\ ~NumberIsNaN(ToNumber(lastLos))
                  THEN IF t # Null /\ Gt(ToNumber(lastLos), t) THEN ALARM_RED
                       ELSE GREEN
                  ELSE indicatorColor
             /\ pending' = Changed("threshold", threshold, thr)
     ELSE UNCHANGED <<threshold, thresholdRef, indicatorColor, pending>>
  /\ UNCHANGED <<tableData, connectionState, losReading, losReadingRef,
                 isFocusedRef, mounted, pingPending>>
  /\ UNCHANGED sessionVars
  /\ UNCHANGED <<guardVars, sideVars>>

fetchThresholdDone(r) ==
  /\ Settled /\ Live
  /\ lastIngest' = [NoIngest EXCEPT
                      !.fetchFailed = r.kind # "ok" /\ threshold # Null]
  /\ fetchPending > 0
  /\ fetchPending' = fetchPending - 1
  /\ IF r.kind = "ok"
     THEN LET losRaw == IF r.isObject
                        THEN Coalesce(r.los_ppm,
                               Coalesce(r.losPpm, Coalesce(r.los_ppm_value, Null)))
                        ELSE Null
              los == IF Nullish(losRaw) THEN Null ELSE ToNumber(losRaw)
              thr == IF NumberIsFinite(los) THEN los ELSE Null
              lastLos == losReadingRef
              t == FiniteOrNull(los)
          IN /\ threshold' = thr
             /\ thresholdRef' = thr
             /\ indicatorColor' =
                  IF ~Nullish(lastLos) /\ ~NumberIsNaN(ToNumber(lastLos))
                  THEN IF t # Null /\ Gt(ToNumber(lastLos), t) THEN ALARM_RED
                       ELSE GREEN
                  ELSE indicatorColor
             /\ pending' = Changed("threshold", threshold, thr)
     ELSE /\ threshold' = Null
          /\ thresholdRef' = Null
          /\ indicatorColor' = indicatorColor
          /\ pending' = Changed("threshold", threshold, Null)
  /\ UNCHANGED <<tableData, connectionState, losReading, losReadingRef,
                 isFocusedRef, mounted, pingPending>>
  /\ UNCHANGED sessionVars
  /\ UNCHANGED <<guardVars, sideVars>>

\* the response of a fetchThreshold call whose effect has been cleaned up:
\* cancelled is true and every update is skipped
fetchThresholdCancelled(r) ==
  /\ Settled
  /\ lastIngest' = NoIngest
  /\ cancelledFetches > 0
  /\ cancelledFetches' = cancelledFetches - 1
  /\ UNCHANGED <<tableData, connectionState, indicatorColor, losReading,
                 threshold, thresholdRef, losReadingRef, isFocusedRef, mounted,
                 pending, fetchPending, pingPending>>
  /\ UNCHANGED <<session, serialNumber, currentView, stalePings>>
  /\ UNCHANGED <<guardVars, sideVars>>

(***************************************************************************)
(* The response of GET /api/ping/<serial> (initial ping, focus ping)       *)
(***************************************************************************)
PingResponse(kind, status, online) ==
  [kind |-> kind, status |-> status, online |-> online, isOnline |-> Undefined]

\* the continuation of a ping made for the device sn: it has no liveness
\* test and sets the connectivity under the serial of its closure
pingAnswered(r, sn) ==
  IF session = "unmounted"
  \* an update of an unmounted component is dropped by React
  THEN UNCHANGED <<connectionState, pending>>
  ELSE IF r.kind = "ok"
  THEN LET online == \/ r.status = Str(S_online)
                     \/ r.online = Bool(TRUE)
                     \/ r.isOnline = Bool(TRUE)
       IN /\ connectionState' = [color |-> IF online THEN GREEN ELSE STATUS_RED,
                                 serialNo |-> sn]
          /\ pending' = {"connectionState"}
  ELSE UNCHANGED <<connectionState, pending>>

pingDone(r) ==
  /\ Settled
  /\ lastIngest' = NoIngest
  /\ pingPending > 0
  /\ pingPending' = pingPending - 1
  /\ pingAnswered(r, serialNumber)
  /\ UNCHANGED <<tableData, indicatorColor, losReading, threshold, thresholdRef,
                 losReadingRef, isFocusedRef, mounted, fetchPending>>
  /\ UNCHANGED sessionVars
  /\ UNCHANGED <<guardVars, sideVars>>

\* the response of a ping that was made before the route named another
\* device
stalePingDone(r) ==
  /\ Settled
  /\ lastIngest' = NoIngest
  /\ stalePings > 0
  /\ stalePings' = stalePings - 1
  /\ pingAnswered(r, otherSerial)
  /\ UNCHANGED <<tableData, indicatorColor, losReading, threshold, thresholdRef,
                 losReadingRef, isFocusedRef, mounted, fetchPending, pingPending>>
  /\ UNCHANGED <<session, serialNumber, currentView, cancelledFetches>>
  /\ UNCHANGED <<guardVars, sideVars>>

(***************************************************************************)
(* Navigation focus / blur and the Clear button                            *)
(***************************************************************************)
\* both 'focus' listeners: isFocusedRef, fetchThreshold() and the ping
onFocus ==
  /\ Settled /\ Live
  /\ lastIngest' = NoIngest
  /\ fetchPending < MaxInFlight /\ pingPending < MaxInFlight
  /\ isFocusedRef' = TRUE
  /\ fetchPending' = fetchPending + 1
  /\ pingPending' = pingPending + 1
  /\ UNCHANGED <<tableData, connectionState, indicatorColor, losReading,
                 threshold, thresholdRef, losReadingRef, mounted, pending>>
  /\ UNCHANGED sessionVars
  /\ UNCHANGED <<guardVars, sideVars>>

onBlur ==
  /\ Settled /\ Live
  /\ lastIngest' = NoIngest
  /\ isFocusedRef' = FALSE
  /\ UNCHANGED <<tableData, connectionState, indicatorColor, losReading,
                 threshold, thresholdRef, losReadingRef, mounted, pending,
                 fetchPending, pingPending>>
  /\ UNCHANGED sessionVars
  /\ UNCHANGED <<guardVars, sideVars>>

ClearPress ==
  /\ Settled /\ Live
  /\ lastIngest' = NoIngest
  /\ tableData' = <<>>
  /\ UNCHANGED <<connectionState, indicatorColor, losReading, threshold,
                 thresholdRef, losReadingRef, isFocusedRef, mounted, pending,
                 fetchPending, pingPending>>
  /\ UNCHANGED sessionVars
  /\ UNCHANGED <<guardVars, sideVars>>

\* the socket io() returns, taken as connected
SocketUp == [up |-> TRUE, attempts |-> 0, failed |-> FALSE, closed |-> FALSE]
\* after socket.disconnect(): closed for good, the manager does not reconnect
SocketClosed == [up |-> FALSE, attempts |-> 0, failed |-> FALSE, closed |-> TRUE]

(***************************************************************************)
(* The effects on [serialNumber, route.params?.host, ...] are cleaned up   *)
(* because the screen unmounts ("unmounted"), or because the route names   *)
(* another device ("changed") or another host ("host") and the screen      *)
(* stays mounted.  The cleanups set cancelled = true, remove the socket's  *)
(* handlers and disconnect it; the requests in flight stay in flight.      *)
(* When the screen stays mounted the same flush runs the effects again: a  *)
(* new socket, fetchThreshold() and the initial ping for the route's       *)
(* device.  The state of the component is kept.                            *)
(***************************************************************************)
Teardown(how) ==
  /\ Settled /\ Live
  /\ lastIngest' = NoIngest
  /\ cancelledFetches + fetchPending <= MaxInFlight
  /\ cancelledFetches' = cancelledFetches + fetchPending
  /\ CASE how = "unmounted" ->
          /\ session' = "unmounted"
          /\ socket' = SocketClosed
          /\ fetchPending' = 0
          /\ UNCHANGED <<serialNumber, pingPending, stalePings>>
       [] how = "changed" ->
          /\ stalePings < MaxInFlight
          /\ serialNumber' = otherSerial
          /\ socket' = SocketUp
          /\ fetchPending' = 1
          /\ pingPending' = stalePings + 1
          /\ stalePings' = pingPending
          /\ UNCHANGED session
       [] how = "host" ->
          /\ pingPending < MaxInFlight
          /\ socket' = SocketUp
          /\ fetchPending' = 1
          /\ pingPending' = pingPending + 1
          /\ UNCHANGED <<session, serialNumber, stalePings>>
  /\ UNCHANGED <<tableData, connectionState, indicatorColor, losReading, threshold,
                 thresholdRef, losReadingRef, isFocusedRef, mounted, pending,
                 currentView>>
  /\ UNCHANGED <<guardVars, settingsVars, moreVars>>

\* a press of the 'Real time' or the 'Alarms' tab: setCurrentView(view).
\* currentView is a dependency of the socket effect: when it changes the
\* socket is disconnected and a new one is created
TabPress(view) ==
  /\ Settled /\ Live
  /\ lastIngest' = NoIngest
  /\ currentView' = view
  /\ socket' = IF view # currentView THEN SocketUp ELSE socket
  /\ UNCHANGED <<tableData, connectionState, indicatorColor, losReading, threshold,
                 thresholdRef, losReadingRef, isFocusedRef, mounted, pending,
                 fetchPending, pingPending>>
  /\ UNCHANGED <<session, serialNumber, stalePings, cancelledFetches>>
  /\ UNCHANGED <<guardVars, settingsVars, moreVars>>

(***************************************************************************)
(* Guarded variant (src/unnamed/part_000, first IndicatorApp): the replay  *)
(* guard of the mqtt_message handler and the Clear button.  The threshold  *)
(* and colour logic of this variant is that of the Main screen and is      *)
(* modelled there; connectionState.serialNo is null or serialNumber, so    *)
(* that connectionState.serialNo ?? serialNumber is serialNumber.          *)
(***************************************************************************)
\* Highest value of the client clock.
MaxClock == 1

Bar == <<"|">>

\* new Date().toLocaleString() at the second `now`
localTimestampAt(now) == Str(<<"L">> \o NatToString(now))

makeFingerprint(serial, key, value, serverTs, localTs) ==
  LET s == JsString(Coalesce(serial, Str(<<>>)))
      k == JsString(Coalesce(key, Str(<<>>)))
      v == JsString(Coalesce(value, Str(<<>>)))
      ts == IF Truthy(serverTs) THEN JsString(serverTs)
            ELSE JsString(Coalesce(localTs, Str(<<>>)))
  IN s \o Bar \o k \o Bar \o v \o Bar \o ts

\* a || b
Or(a, b) == IF Truthy(a) THEN a ELSE b

serverTsCandidate(msg) ==
  Or(Or(Or(IF msg.payload.kind = "undef" THEN Undefined
           ELSE Or(msg.payload.ts, msg.payload.timestamp),
           msg.ts), msg.timestamp), Str(<<>>))

\* the fingerprint the handler gives the entry e of msg at the second now
entryFingerprint(msg, e, now) ==
  makeFingerprint(Coalesce(msgSerialOf(msg), serialNumber), Str(e.k), e.v,
                  serverTsCandidate(msg), localTimestampAt(now))

g_RowOf(msg, e, now) ==
  LET numeric == normalizePpmValue(e.v)
  IN [TIMESTAMP |-> localTimestampAt(now), INDICATOR |-> "Gas Finder-PPM",
      VALUE |-> IF numeric # Null THEN numeric ELSE e.v,
      rawKey |-> e.k, rawValue |-> e.v,
      _fingerprint |-> entryFingerprint(msg, e, now)]

\* the body of the forEach without the skip flag's early return
g_EntryStepNoSkip(msg, e, now, st, cleared) ==
  LET fp == entryFingerprint(msg, e, now)
      numeric == normalizePpmValue(e.v)
  IN IF fp \in cleared THEN [st EXCEPT !.skip = FALSE]
     ELSE IF fp \in st.seen THEN [st EXCEPT !.skip = FALSE]
     ELSE [st EXCEPT !.skip = FALSE,
                     !.seen = st.seen \cup {fp},
                     !.rows = Append(st.rows, g_RowOf(msg, e, now)),
                     !.los = IF numeric # Null THEN numeric ELSE e.v]

\* the body of the forEach for one PPM entry;
\* st = [skip, seen, rows, los]
g_EntryStep(msg, e, now, st, cleared) ==
  LET fp == entryFingerprint(msg, e, now)
      numeric == normalizePpmValue(e.v)
  IN IF st.skip THEN [st EXCEPT !.skip = FALSE]
     ELSE IF fp \in cleared THEN st
     ELSE IF fp \in st.seen THEN st
     ELSE [st EXCEPT !.seen = st.seen \cup {fp},
                     !.rows = Append(st.rows, g_RowOf(msg, e, now)),
                     !.los = IF numeric # Null THEN numeric ELSE e.v]

RECURSIVE g_EntryFold(_, _, _, _, _)
g_EntryFold(msg, es, now, st, cleared) ==
  IF es = <<>> THEN st
  ELSE g_EntryFold(msg, Tail(es), now,
                   g_EntryStep(msg, Head(es), now, st, cleared), cleared)

\* whether the handler gets past its early returns
g_Handled(msg, focused) ==
  focused /\ paramsOf(msg).kind = "obj" /\ ~ForOtherDevice(msg)

g_Fingerprints(msg, now) ==
  LET es == PpmEntries(paramsOf(msg))
  IN [i \in 1..Len(es) |-> entryFingerprint(msg, es[i], now)]

\* g_last: the envelope of the last run of deliveries (consecutive handled
\* deliveries of one envelope with the same fingerprints), how many there were
\* (1, or 2 for a repeat), whether none of its fingerprints was in SeenSet
\* when the run began, and the keys of the readings the run accepted
g_NoDelivery ==
  [msg |-> NoMsg, fps |-> <<>>, n |-> 0, fresh |-> FALSE, accepted |-> <<>>]

g_Repeat(msg, now) ==
  g_last.msg = msg /\ g_last.fps = g_Fingerprints(msg, now) /\ g_last.n = 1

g_NoAudit == [visible |-> {}, cleared |-> {}, afterClear |-> FALSE]

GuardInit ==
  /\ g_tableData = <<>>
  /\ g_losReading = Null
  /\ g_clearedSet = {}
  /\ g_seenSet = {}
  /\ g_isFocused = TRUE
  /\ g_skipFirst = TRUE
  /\ g_now = 0
  /\ g_last = g_NoDelivery
  /\ g_audit = g_NoAudit

\* the guarded screen is not open
GuardIdle == GuardInit

g_MqttMessage(msg) ==
  /\ IF g_Handled(msg, g_isFocused)
     THEN LET es == PpmEntries(paramsOf(msg))
              st == g_EntryFold(msg, es, g_now,
                                [skip |-> g_skipFirst, seen |-> g_seenSet,
                                 rows |-> <<>>, los |-> g_losReading],
                                g_clearedSet)
          IN /\ g_skipFirst' = st.skip
             /\ g_seenSet' = st.seen
             /\ g_losReading' = st.los
             /\ g_tableData' = IF Len(st.rows) > 0 THEN Prepend(st.rows, g_tableData)
                               ELSE g_tableData
             /\ g_last' =
                  LET keys == [i \in 1..Len(st.rows) |-> st.rows[i].rawKey]
                  IN IF g_Repeat(msg, g_now)
                     THEN [g_last EXCEPT !.n = 2, !.accepted = g_last.accepted \o keys]
                     ELSE [msg |-> msg, fps |-> g_Fingerprints(msg, g_now), n |-> 1,
                           fresh |-> \A i \in 1..Len(es) :
                                       entryFingerprint(msg, es[i], g_now) \notin g_seenSet,
                           accepted |-> keys]
             /\ g_audit' =
                  [g_audit EXCEPT
                     !.visible = @ \cup {[msg |-> msg, k |-> st.rows[i].rawKey] :
                                           i \in 1..Len(st.rows)},
                     !.afterClear = @ /\ es = <<>>]
     ELSE UNCHANGED <<g_skipFirst, g_seenSet, g_losReading, g_tableData, g_last,
                      g_audit>>
  /\ UNCHANGED <<g_clearedSet, g_isFocused, g_now>>
  /\ UNCHANGED <<mainVars, sideVars>>

\* the Clear button
g_ClearPress ==
  /\ g_clearedSet' =
       {makeFingerprint(serialNumber, Str(g_tableData[i].rawKey), g_tableData[i].rawValue,
                        Str(<<>>), g_tableData[i].TIMESTAMP) : i \in 1..Len(g_tableData)}
  /\ g_tableData' = <<>>
  /\ g_skipFirst' = TRUE
  /\ g_last' = g_NoDelivery
  /\ g_audit' = [visible |-> {}, cleared |-> g_audit.cleared \cup g_audit.visible,
                 afterClear |-> TRUE]
  /\ UNCHANGED <<g_losReading, g_seenSet, g_isFocused, g_now>>
  /\ UNCHANGED <<mainVars, sideVars>>

g_onFocus ==
  /\ g_isFocused' = TRUE
  /\ g_skipFirst' = TRUE
  /\ g_last' = g_NoDelivery
  /\ UNCHANGED <<g_tableData, g_losReading, g_clearedSet, g_seenSet, g_now, g_audit>>
  /\ UNCHANGED <<mainVars, sideVars>>

g_onBlur ==
  /\ g_isFocused' = FALSE
  /\ g_last' = g_NoDelivery
  /\ UNCHANGED <<g_tableData, g_losReading, g_clearedSet, g_seenSet, g_skipFirst,
                 g_now, g_audit>>
  /\ UNCHANGED <<mainVars, sideVars>>

\* a second passes on the client clock
g_Tick ==
  /\ g_now < MaxClock
  /\ g_now' = g_now + 1
  /\ UNCHANGED <<g_tableData, g_losReading, g_clearedSet, g_seenSet, g_isFocused,
                 g_skipFirst, g_last, g_audit>>
  /\ UNCHANGED <<mainVars, sideVars>>

(***************************************************************************)
(* The push-stream socket: io(url, {reconnection: true,                    *)
(* reconnectionAttempts: 5, reconnectionDelay: 2000}).  The 'connect' and  *)
(* 'disconnect' handlers of the screen only log.                           *)
(***************************************************************************)
reconnectionAttempts == 5

\* the socket of the session, connected
SocketInit == socket = SocketUp

\* the transport closes; the manager starts to reconnect
SocketDrop ==
  /\ Settled /\ Live
  /\ socket.up
  /\ socket' = [up |-> FALSE, attempts |-> 0, failed |-> FALSE, closed |-> FALSE]
  /\ UNCHANGED <<mainVars, guardVars, settingsVars, moreVars>>

\* one reconnection attempt, reconnectionDelay after the previous failure
ReconnectAttempt(ok) ==
  /\ Live
  /\ ~socket.up /\ ~socket.failed /\ ~socket.closed
  /\ socket.attempts < reconnectionAttempts
  /\ socket' = IF ok THEN SocketUp ELSE [socket EXCEPT !.attempts = @ + 1]
  /\ UNCHANGED <<mainVars, guardVars, settingsVars, moreVars>>

\* the attempts are used up: reconnect_failed, for which the screen
\* registers no handler; the manager stops reconnecting
ReconnectGiveUp ==
  /\ Live
  /\ ~socket.up /\ ~socket.failed /\ ~socket.closed
  /\ socket.attempts = reconnectionAttempts
  /\ socket' = [socket EXCEPT !.failed = TRUE]
  /\ UNCHANGED <<mainVars, guardVars, settingsVars, moreVars>>

(***************************************************************************)
(* The Settings screen (src/Pages/Settings.js).                            *)
(***************************************************************************)
s_NoPut == [inflight |-> FALSE, body |-> Undefined]
s_NoLog == [alert |-> "", put |-> FALSE, updated |-> FALSE, value |-> Undefined,
            back |-> FALSE]

\* the screen is not open
SettingsIdle ==
  /\ s_open = FALSE
  /\ s_onUpdate = FALSE
  /\ s_losPpm = <<>>
  /\ s_saving = FALSE
  /\ s_fetch = FALSE
  /\ s_put = s_NoPut
  /\ s_log = s_NoLog

\* navigation.navigate('Settings', {serialNumber, onUpdate}): the mount and
\* its effect, which starts fetchLosPpm
s_Open(onUpdate) ==
  /\ ~s_open /\ ~s_put.inflight /\ ~s_fetch
  /\ s_open' = TRUE
  /\ s_onUpdate' = onUpdate
  /\ s_losPpm' = <<>>
  /\ s_saving' = FALSE
  /\ s_fetch' = TRUE
  /\ s_put' = s_NoPut
  /\ s_log' = s_NoLog
  /\ UNCHANGED <<mainVars, guardVars, socketVars, moreVars>>

\* the response of fetchLosPpm: r.kind is "ok", "notok" or "error", r.value
\* the los_ppm of the body
s_fetchLosPpmDone(r) ==
  /\ s_fetch
  /\ s_fetch' = FALSE
  /\ s_losPpm' = IF ~s_open THEN s_losPpm   \* cancelled
                 ELSE IF r.kind = "ok" /\ ~Nullish(r.value) THEN JsString(r.value)
                 ELSE <<>>
  /\ UNCHANGED <<s_open, s_onUpdate, s_saving, s_put, s_log>>
  /\ UNCHANGED <<mainVars, guardVars, socketVars, moreVars>>

\* onChangeText={setLosPpm}
s_ChangeText(t) ==
  /\ s_open
  /\ s_losPpm' = t
  /\ UNCHANGED <<s_open, s_onUpdate, s_saving, s_fetch, s_put, s_log>>
  /\ UNCHANGED <<mainVars, guardVars, socketVars, moreVars>>

\* const trimmed = String(losPpm).trim()
s_trimmed(text) == Trim(text)
\* const numeric = trimmed === '' ? null : Number(trimmed)
s_numeric(text) ==
  IF s_trimmed(text) = <<>> THEN Null ELSE StringToNumber(s_trimmed(text))
\* the validation that never rejects
s_InvalidNever(text) == FALSE
\* trimmed !== '' && Number.isNaN(numeric)
s_Invalid(text) == s_trimmed(text) # <<>> /\ NumberIsNaN(s_numeric(text))

\* handleSave up to its first await: the validation, setSaving(true) and the
\* PUT (the Submit button is disabled while saving)
s_handleSave ==
  /\ s_open /\ ~s_saving
  /\ IF s_Invalid(s_losPpm)
     THEN /\ s_log' = [s_NoLog EXCEPT !.alert = "Invalid value"]
          /\ UNCHANGED <<s_saving, s_put>>
     ELSE /\ s_saving' = TRUE
          /\ s_put' = [inflight |-> TRUE,
                       body |-> IF s_trimmed(s_losPpm) = <<>> THEN Undefined
                                ELSE s_numeric(s_losPpm)]
          /\ s_log' = [s_NoLog EXCEPT !.put = TRUE]
  /\ UNCHANGED <<s_open, s_onUpdate, s_losPpm, s_fetch>>
  /\ UNCHANGED <<mainVars, guardVars, socketVars, moreVars>>

\* the PUT that never reports a failure
s_SavedAlways(kind) == TRUE
\* the PUT resolved and res.ok
s_Saved(kind) == kind = "ok"

\* handleSave after the PUT settles: kind is "ok", "notok" (!res.ok) or
\* "error" (fetch rejected)
s_putDone(kind) ==
  /\ s_put.inflight
  /\ s_put' = [s_put EXCEPT !.inflight = FALSE]
  /\ IF s_Saved(kind)
     THEN /\ s_log' = [s_log EXCEPT
                         !.updated = s_onUpdate,
                         !.value = IF s_onUpdate
                                   THEN (IF s_put.body = Undefined THEN Null
                                         ELSE s_put.body)
                                   ELSE Undefined,
                         !.back = TRUE]
          /\ s_open' = FALSE
     ELSE /\ s_log' = [s_log EXCEPT !.alert = "Save failed"]
          /\ UNCHANGED s_open
  \* finally
  /\ s_saving' = FALSE
  /\ UNCHANGED <<s_onUpdate, s_losPpm, s_fetch>>
  /\ UNCHANGED <<mainVars, guardVars, socketVars, moreVars>>

\* the Cancel button (disabled while saving)
s_Cancel ==
  /\ s_open /\ ~s_saving
  /\ s_open' = FALSE
  /\ s_log' = [s_NoLog EXCEPT !.back = TRUE]
  /\ UNCHANGED <<s_onUpdate, s_losPpm, s_saving, s_fetch, s_put>>
  /\ UNCHANGED <<mainVars, guardVars, socketVars, moreVars>>

(***************************************************************************)
(* The root component (src/App.js): the registration for push messages.    *)
(* ensureRegistered is an async function; each of its awaits ends a step,  *)
(* and the invocations in flight interleave at those points.               *)
(***************************************************************************)
APPSTATE_THROTTLE_MS == 2000
MaxAppTicks == 2
\* one tick of the clock, in ms
a_TickMs == APPSTATE_THROTTLE_MS \div 2
\* Date.now() when the component is constructed: far from the epoch, so the
\* first call is never throttled
a_StartMs == APPSTATE_THROTTLE_MS

\* fcmToken as ensureRegistered reads it: both effects have [] dependencies,
\* so the function they call closes over the state of the first render
a_closureToken == ""

a_Call(pc, allowPrompt) == [pc |-> pc, allowPrompt |-> allowPrompt]

\* before the mount
AppIdle ==
  /\ a_mounted = "no"
  /\ a_now = a_StartMs
  /\ a_lastCheck = 0
  /\ a_registered = FALSE
  /\ a_tokenUnsub = 0
  /\ a_messageUnsub = 0
  /\ a_fcmToken = ""
  /\ a_calls = <<>>
  /\ a_tokenSubs = {}
  /\ a_messageSubs = {}
  /\ a_shown = 0

\* ensureRegistered up to its first await: the throttle, then the permission
\* request or check
ensureRegistered(allowPrompt) ==
  IF a_now - a_lastCheck < APPSTATE_THROTTLE_MS
  THEN UNCHANGED <<a_lastCheck, a_calls>>
  ELSE /\ a_lastCheck' = a_now
       /\ a_calls' = Append(a_calls, a_Call("perm", allowPrompt))

\* setFcmToken: a no-op once the component is unmounted
a_setFcmToken(token) ==
  a_fcmToken' = IF a_mounted = "yes" THEN token ELSE a_fcmToken

\* the two subscriptions of invocation c, their unsubscribe functions saved
\* in the refs, and registeredRef raised
a_Subscribe(c) ==
  /\ a_tokenSubs' = a_tokenSubs \cup {c}
  /\ a_tokenUnsub' = c
  /\ a_messageSubs' = a_messageSubs \cup {c}
  /\ a_messageUnsub' = c
  /\ a_registered' = TRUE
  /\ a_calls' = [a_calls EXCEPT ![c].pc = "done"]

\* the mount effect
a_Mount ==
  /\ a_mounted = "no"
  /\ a_mounted' = "yes"
  /\ ensureRegistered(TRUE)
  /\ UNCHANGED <<a_now, a_registered, a_tokenUnsub, a_messageUnsub,
                 a_fcmToken, a_tokenSubs, a_messageSubs, a_shown>>
  /\ UNCHANGED notAppVars

\* AppState 'change' to 'active'
a_Foreground ==
  /\ a_mounted = "yes"
  /\ ensureRegistered(FALSE)
  /\ UNCHANGED <<a_mounted, a_now, a_registered, a_tokenUnsub, a_messageUnsub,
                 a_fcmToken, a_tokenSubs, a_messageSubs, a_shown>>
  /\ UNCHANGED notAppVars

\* the permission request or check of invocation c resolves (both helpers
\* catch their errors and answer false)
a_PermissionDone(c, permissionOk) ==
  /\ c \in DOMAIN a_calls /\ a_calls[c].pc = "perm"
  /\ a_calls' = [a_calls EXCEPT ![c].pc =
                   IF ~permissionOk THEN "done"
                   ELSE IF ~a_registered THEN "reg"
                   ELSE "tok2"]
  /\ UNCHANGED <<a_mounted, a_now, a_lastCheck, a_registered, a_tokenUnsub,
                 a_messageUnsub, a_fcmToken, a_tokenSubs, a_messageSubs,
                 a_shown>>
  /\ UNCHANGED notAppVars

\* registerDeviceForRemoteMessages of invocation c settles; a rejection is
\* caught by the outer catch
a_RegisterDone(c, ok) ==
  /\ c \in DOMAIN a_calls /\ a_calls[c].pc = "reg"
  /\ a_calls' = [a_calls EXCEPT ![c].pc = IF ok THEN "tok" ELSE "done"]
  /\ UNCHANGED <<a_mounted, a_now, a_lastCheck, a_registered, a_tokenUnsub,
                 a_messageUnsub, a_fcmToken, a_tokenSubs, a_messageSubs,
                 a_shown>>
  /\ UNCHANGED notAppVars

\* getToken of invocation c settles: r is "throw", or the token ("" for an
\* empty one)
a_TokenDone(c, r) ==
  /\ c \in DOMAIN a_calls /\ a_calls[c].pc \in {"tok", "tok2"}
  /\ IF r = "throw"
     THEN /\ a_calls' = [a_calls EXCEPT ![c].pc = "done"]
          /\ UNCHANGED <<a_registered, a_tokenUnsub, a_messageUnsub,
                         a_fcmToken, a_tokenSubs, a_messageSubs>>
     ELSE IF a_calls[c].pc = "tok"
     THEN IF r # ""
          THEN /\ a_setFcmToken(r)
               /\ a_calls' = [a_calls EXCEPT ![c].pc = "send"]
               /\ UNCHANGED <<a_registered, a_tokenUnsub, a_messageUnsub,
                              a_tokenSubs, a_messageSubs>>
          ELSE /\ a_Subscribe(c)
               /\ UNCHANGED a_fcmToken
     ELSE IF r # "" /\ r # a_closureToken
          THEN /\ a_setFcmToken(r)
               /\ a_calls' = [a_calls EXCEPT ![c].pc = "send2"]
               /\ UNCHANGED <<a_registered, a_tokenUnsub, a_messageUnsub,
                              a_tokenSubs, a_messageSubs>>
          ELSE /\ a_calls' = [a_calls EXCEPT ![c].pc = "done"]
               /\ UNCHANGED <<a_registered, a_tokenUnsub, a_messageUnsub,
                              a_fcmToken, a_tokenSubs, a_messageSubs>>
  /\ UNCHANGED <<a_mounted, a_now, a_lastCheck, a_shown>>
  /\ UNCHANGED notAppVars

\* sendTokenToBackend of invocation c resolves (it catches its errors)
a_SendDone(c) ==
  /\ c \in DOMAIN a_calls /\ a_calls[c].pc \in {"send", "send2"}
  /\ IF a_calls[c].pc = "send"
     THEN a_Subscribe(c)
     ELSE /\ a_calls' = [a_calls EXCEPT ![c].pc = "done"]
          /\ UNCHANGED <<a_registered, a_tokenUnsub, a_messageUnsub,
                         a_tokenSubs, a_messageSubs>>
  /\ UNCHANGED <<a_mounted, a_now, a_lastCheck, a_fcmToken, a_shown>>
  /\ UNCHANGED notAppVars

\* messaging() refreshes the token: every handler subscribed runs
a_TokenRefresh(newToken) ==
  /\ a_tokenSubs # {}
  /\ a_setFcmToken(newToken)
  /\ UNCHANGED <<a_mounted, a_now, a_lastCheck, a_registered, a_tokenUnsub,
                 a_messageUnsub, a_calls, a_tokenSubs, a_messageSubs, a_shown>>
  /\ UNCHANGED notAppVars

\* a remote message in the foreground: every handler subscribed shows a
\* local notification
a_RemoteMessage ==
  /\ a_mounted # "no"
  /\ a_shown' = Cardinality(a_messageSubs)
  /\ UNCHANGED <<a_mounted, a_now, a_lastCheck, a_registered, a_tokenUnsub,
                 a_messageUnsub, a_fcmToken, a_calls, a_tokenSubs,
                 a_messageSubs>>
  /\ UNCHANGED notAppVars

\* the cleanups of the two effects: the functions held by the refs are
\* called, the AppState listener is removed
a_Unmount ==
  /\ a_mounted = "yes"
  /\ a_mounted' = "gone"
  /\ a_tokenSubs' = a_tokenSubs \ {a_tokenUnsub}
  /\ a_messageSubs' = a_messageSubs \ {a_messageUnsub}
  /\ UNCHANGED <<a_now, a_lastCheck, a_registered, a_tokenUnsub,
                 a_messageUnsub, a_fcmToken, a_calls, a_shown>>
  /\ UNCHANGED notAppVars

\* time passes
a_Tick ==
  /\ a_now < a_StartMs + MaxAppTicks * a_TickMs
  /\ a_now' = a_now + a_TickMs
  /\ UNCHANGED <<a_mounted, a_lastCheck, a_registered, a_tokenUnsub,
                 a_messageUnsub, a_fcmToken, a_calls, a_tokenSubs,
                 a_messageSubs, a_shown>>
  /\ UNCHANGED notAppVars

(***************************************************************************)
(* The graph (src/Components/PpmGraph.js, and its buffered variant         *)
(* src/unnamed/part_005).  The effect of externalData runs with the render *)
(* that delivers the new prop, so the prop change and the effect are one   *)
(* step.  externalData starts as the empty array: with                     *)
(* lastExternalLenRef at 0 the effect returns for it as it does for the    *)
(* default null.                                                           *)
(***************************************************************************)
maxPoints == 2
MaxExt == 3

\* a reading as the parent hands it over; present is FALSE for a null
\* element of the array
Datum(ts, TIMESTAMP, value, rawValue, VALUE) ==
  [present |-> TRUE, ts |-> ts, TIMESTAMP |-> TIMESTAMP, value |-> value,
   rawValue |-> rawValue, VALUE |-> VALUE]
NullDatum ==
  [present |-> FALSE, ts |-> Undefined, TIMESTAMP |-> Undefined,
   value |-> Undefined, rawValue |-> Undefined, VALUE |-> Undefined]

\* String(n).padStart(2, '0')
Pad2(n) == IF n < 10 THEN <<"0">> \o NatToString(n) ELSE NatToString(n)

\* getHours(), getMinutes(), getSeconds() of the instant i, which is i
\* seconds after a local midnight
HoursOf(i) == (i \div 3600) % 24
MinutesOf(i) == (i \div 60) % 60
SecondsOf(i) == i % 60

\* formatSmallTime of part_005: the timestamps are dates, absent, or text
\* that is no date
formatSmallTime(iso) ==
  IF ~Truthy(iso) THEN <<>>
  ELSE IF iso.t = "date"
  THEN Pad2(HoursOf(iso.n)) \o <<":">> \o Pad2(MinutesOf(iso.n)) \o <<":">>
       \o Pad2(SecondsOf(iso.n))
  ELSE JsString(iso)

\* formatSmallTime12 of PpmGraph.js
formatSmallTime12(iso) ==
  IF ~Truthy(iso) THEN <<>>
  ELSE IF iso.t = "date"
  THEN LET hours == HoursOf(iso.n)
           h12 == IF hours % 12 = 0 THEN 12 ELSE hours % 12
       IN Pad2(h12) \o <<":">> \o Pad2(MinutesOf(iso.n)) \o <<":">>
          \o Pad2(SecondsOf(iso.n))
          \o (IF hours >= 12 THEN <<" ", "P", "M">> ELSE <<" ", "A", "M">>)
  ELSE JsString(iso)

mapDatumToPoint(d) ==
  IF ~d.present THEN [ts |-> Null, value |-> Null]
  ELSE LET raw == IF d.value # Undefined THEN d.value
                  ELSE Coalesce(Coalesce(d.rawValue, d.VALUE), Null)
       IN [ts |-> Coalesce(Coalesce(d.ts, d.TIMESTAMP), Null),
           value |-> IF Nullish(raw) THEN Null
                     ELSE IF IsNumberType(raw) THEN raw
                     ELSE IF NumberIsNaN(ToNumber(raw)) THEN Null
                     ELSE ToNumber(raw)]

\* arr.slice(-k): slice(-0) is slice(0), the whole array
SliceLast(arr, k) ==
  IF k = 0 \/ Len(arr) <= k THEN arr
  ELSE SubSeq(arr, Len(arr) - k + 1, Len(arr))

\* the updater that keeps every point: next
AppendUncapped(prev, more) == prev \o more
\* the updater of setValuesAll / setTimesAll: next, or
\* next.slice(next.length - maxPoints) when over maxPoints
AppendCapped(prev, more) ==
  LET next == prev \o more
  IN IF Len(next) > maxPoints
     THEN SubSeq(next, Len(next) - maxPoints + 1, Len(next))
     ELSE next

p_Times12(data) == [i \in 1..Len(data) |-> formatSmallTime12(mapDatumToPoint(data[i]).ts)]
p_Times(data) == [i \in 1..Len(data) |-> formatSmallTime(mapDatumToPoint(data[i]).ts)]
p_Values(data) == [i \in 1..Len(data) |-> mapDatumToPoint(data[i]).value]

\* the component mounted with no data
GraphIdle ==
  /\ p_externalData = <<>>
  /\ p_timesAll = <<>>
  /\ p_valuesAll = <<>>
  /\ p_lastExternalLen = 0
  /\ p_bufferTimes = <<>>
  /\ p_bufferValues = <<>>
  /\ p_arrived = <<>>

\* PpmGraph.js: the parent renders the graph with a new externalData and
\* the effect processes it
p_externalDataChanged(next) ==
  /\ p_externalData' = next
  /\ IF Len(next) < p_lastExternalLen
     THEN /\ p_timesAll' = p_Times12(SliceLast(next, maxPoints))
          /\ p_valuesAll' = p_Values(SliceLast(next, maxPoints))
     ELSE IF Len(next) = p_lastExternalLen
     THEN UNCHANGED <<p_timesAll, p_valuesAll>>
     ELSE LET added == SubSeq(next, p_lastExternalLen + 1, Len(next))
          IN /\ p_valuesAll' = AppendCapped(p_valuesAll, p_Values(added))
             /\ p_timesAll' = AppendCapped(p_timesAll, p_Times12(added))
  /\ p_lastExternalLen' = Len(next)
  /\ UNCHANGED <<p_bufferTimes, p_bufferValues, p_arrived>>
  /\ UNCHANGED notGraphVars

\* PpmGraph.js: clear()
p_clear ==
  /\ p_lastExternalLen' = 0
  /\ p_timesAll' = <<>>
  /\ p_valuesAll' = <<>>
  /\ UNCHANGED <<p_externalData, p_bufferTimes, p_bufferValues, p_arrived>>
  /\ UNCHANGED notGraphVars

\* part_005: the effect of a new externalData fills the buffers
b_externalDataChanged(next) ==
  /\ p_externalData' = next
  /\ IF Len(next) < p_lastExternalLen
     THEN /\ p_timesAll' = p_Times(SliceLast(next, maxPoints))
          /\ p_valuesAll' = p_Values(SliceLast(next, maxPoints))
          /\ p_bufferTimes' = <<>>
          /\ p_bufferValues' = <<>>
          /\ p_arrived' = p_Values(SliceLast(next, maxPoints))
     ELSE IF Len(next) = p_lastExternalLen
     THEN UNCHANGED <<p_timesAll, p_valuesAll, p_bufferTimes, p_bufferValues,
                      p_arrived>>
     ELSE LET added == SubSeq(next, p_lastExternalLen + 1, Len(next))
          IN /\ p_bufferTimes' = p_bufferTimes \o p_Times(added)
             /\ p_bufferValues' = p_bufferValues \o p_Values(added)
             /\ p_arrived' = p_arrived \o p_Values(added)
             /\ UNCHANGED <<p_timesAll, p_valuesAll>>
  /\ p_lastExternalLen' = Len(next)
  /\ UNCHANGED notGraphVars

\* the flush that leaves the buffers as they are
b_BufferKept(buffer) == buffer
\* bufferTimesRef.current = []; bufferValuesRef.current = []
b_BufferEmptied(buffer) == <<>>

\* part_005: a tick of the flush interval
b_flushTick ==
  /\ ~(p_bufferTimes = <<>> /\ p_bufferValues = <<>>)
  /\ p_valuesAll' = AppendCapped(p_valuesAll, p_bufferValues)
  /\ p_timesAll' = AppendCapped(p_timesAll, p_bufferTimes)
  /\ p_bufferTimes' = b_BufferEmptied(p_bufferTimes)
  /\ p_bufferValues' = b_BufferEmptied(p_bufferValues)
  /\ UNCHANGED <<p_externalData, p_lastExternalLen, p_arrived>>
  /\ UNCHANGED notGraphVars

\* part_005: clear()
b_clear ==
  /\ p_bufferTimes' = <<>>
  /\ p_bufferValues' = <<>>
  /\ p_lastExternalLen' = 0
  /\ p_timesAll' = <<>>
  /\ p_valuesAll' = <<>>
  /\ p_arrived' = <<>>
  /\ UNCHANGED p_externalData
  /\ UNCHANGED notGraphVars

(***************************************************************************)
(* The entry module (src/index.js): the notification permission flow.      *)
(* checkAndRequestNotificationPermission is async; its await of the system *)
(* request ends a step.  A timer fires at or after its deadline.           *)
(***************************************************************************)
PROMPT_THROTTLE_MS == 20000
SETTINGS_RESET_MS == 3000
SAFETY_RESET_MS == 15000
MaxIndexTicks == 5
\* one tick of the clock, in ms
i_TickMs == PROMPT_THROTTLE_MS \div 4
\* Date.now() when the module is evaluated: far from the epoch, so the cold
\* start is never throttled
i_StartMs == PROMPT_THROTTLE_MS

\* the platforms with a permission to request: iOS, and Android 13 and up
Platforms == {"ios", "android"}

\* before the module is evaluated
IndexIdle ==
  /\ i_platform = ""
  /\ i_now = i_StartMs
  /\ permissionPromptInProgress = FALSE
  /\ lastPromptAt = 0
  /\ i_requests = 0
  /\ i_alerts = 0
  /\ i_timers = EmptyBag

\* if (permissionPromptInProgress) return
i_Blocked(inProgress) == inProgress

\* checkAndRequestNotificationPermission up to its await: the throttle, the
\* guard, and the system request
checkAndRequestNotificationPermission ==
  IF i_now - lastPromptAt < PROMPT_THROTTLE_MS
     \/ i_Blocked(permissionPromptInProgress)
  THEN UNCHANGED <<permissionPromptInProgress, i_requests>>
  ELSE /\ permissionPromptInProgress' = TRUE
       /\ i_requests' = i_requests + 1

\* the module is evaluated on the platform: the cold-start check; the
\* AppState listener is added
i_ColdStart(platform) ==
  /\ i_platform = ""
  /\ i_platform' = platform
  /\ checkAndRequestNotificationPermission
  /\ UNCHANGED <<i_now, lastPromptAt, i_alerts, i_timers>>
  /\ UNCHANGED notIndexVars

\* AppState 'change' to 'active'
i_Foreground ==
  /\ i_platform # ""
  /\ IF ~permissionPromptInProgress
        /\ i_now - lastPromptAt > PROMPT_THROTTLE_MS
     THEN checkAndRequestNotificationPermission
     ELSE UNCHANGED <<permissionPromptInProgress, i_requests>>
  /\ UNCHANGED <<i_platform, i_now, lastPromptAt, i_alerts, i_timers>>
  /\ UNCHANGED notIndexVars

\* the system request settles: result is "granted", "denied" or "error" (a
\* rejection).  The flag is lowered; when the permission is not granted
\* showEnableNotificationsAlert raises it again, shows the alert and starts
\* the safety timer.
i_RequestDone(result) ==
  /\ i_requests > 0
  /\ i_requests' = i_requests - 1
  /\ IF result = "granted"
     THEN /\ permissionPromptInProgress' = FALSE
          /\ lastPromptAt' = i_now
          /\ UNCHANGED <<i_alerts, i_timers>>
     ELSE /\ permissionPromptInProgress' = TRUE
          /\ lastPromptAt' = i_now
          /\ i_alerts' = i_alerts + 1
          /\ i_timers' = i_timers (+) SetToBag({i_now + SAFETY_RESET_MS})
  /\ UNCHANGED <<i_platform, i_now>>
  /\ UNCHANGED notIndexVars

\* the user presses Cancel
i_AlertCancel ==
  /\ i_alerts > 0
  /\ i_alerts' = i_alerts - 1
  /\ permissionPromptInProgress' = FALSE
  /\ UNCHANGED <<i_platform, i_now, lastPromptAt, i_requests, i_timers>>
  /\ UNCHANGED notIndexVars

\* the user presses Open Settings
i_AlertOpenSettings ==
  /\ i_alerts > 0
  /\ i_alerts' = i_alerts - 1
  /\ i_timers' = i_timers (+) SetToBag({i_now + SETTINGS_RESET_MS})
  /\ UNCHANGED <<i_platform, i_now, permissionPromptInProgress, lastPromptAt,
                 i_requests>>
  /\ UNCHANGED notIndexVars

\* a reset timer fires
i_TimerFires(deadline) ==
  /\ BagIn(deadline, i_timers) /\ deadline <= i_now
  /\ i_timers' = i_timers (-) SetToBag({deadline})
  /\ permissionPromptInProgress' = FALSE
  /\ UNCHANGED <<i_platform, i_now, lastPromptAt, i_requests, i_alerts>>
  /\ UNCHANGED notIndexVars

\* time passes
i_Tick ==
  /\ i_now < i_StartMs + MaxIndexTicks * i_TickMs
  /\ i_now' = i_now + i_TickMs
  /\ UNCHANGED <<i_platform, permissionPromptInProgress, lastPromptAt,
                 i_requests, i_alerts, i_timers>>
  /\ UNCHANGED notIndexVars

\* the components outside the Main, guarded and Settings screens, idle
MoreIdle == AppIdle /\ GraphIdle /\ IndexIdle

(***************************************************************************)
(* Inputs of the Main screen.                                              *)
(***************************************************************************)
FlatMsg(received_at, ts, sn, entries) ==
  Msg(received_at, ts, sn, NoPayload, ObjOf(entries))
NestedMsg(received_at, ts, sn, entries) ==
  Msg(received_at, ts, Undefined,
      Payload("obj", ObjOf(entries), sn, Undefined, <<>>), NoObj)

\* los_ppm = 75 with a server receipt time
E_75 == FlatMsg(DateStr(1), Undefined, Undefined, <<Entry(K_los_ppm, Num(75))>>)
\* los_ppm = "50" (text), nested under payload.params, epoch ts, the serial
\* of the device the screen is opened for
E_50 == NestedMsg(Undefined, Num(2), SN1, <<Entry(K_los_ppm, Str(<<"5", "0">>))>>)
\* two PPM keys and one key that is not a PPM key
E_two == FlatMsg(DateStr(3), Undefined, Undefined,
                 <<Entry(K_los_ppm, Num(75)), Entry(K_temp, Num(9)),
                   Entry(K_PPM, Num(20))>>)
\* a value that is not a number
E_abc == FlatMsg(DateStr(4), Undefined, Undefined, <<Entry(K_los_ppm, Str(S_abc))>>)
\* a null value
E_null == FlatMsg(DateStr(5), Undefined, Undefined, <<Entry(K_los_ppm, Null)>>)
\* an envelope that names the other device
E_other == FlatMsg(DateStr(6), Undefined, SN2, <<Entry(K_los_ppm, Num(75))>>)
\* no server timestamp
E_nots == FlatMsg(Undefined, Undefined, Undefined, <<Entry(K_los_ppm, Num(75))>>)
\* no payload and no params
E_empty == Msg(DateStr(7), Undefined, Undefined, NoPayload, NoObj)

\* the other device named in payload.serial
E_otherNested == Msg(DateStr(6), Undefined, Undefined,
                     Payload("obj", NoObj, Undefined, SN2,
                             <<Entry(K_los_ppm, Num(75))>>), NoObj)
\* no PPM key
E_noppm == FlatMsg(DateStr(7), Undefined, Undefined, <<Entry(K_temp, Num(9))>>)
\* a payload and params that are not objects
E_nonobj == Msg(DateStr(7), Undefined, Undefined,
                Payload("other", NoObj, Undefined, Undefined, <<>>), NonObj)
\* an unparsable received_at next to a valid ts
E_badrecv == FlatMsg(Str(S_abc), Num(2), Undefined, <<Entry(K_los_ppm, Num(75))>>)
\* the event carries no message
E_absent == Undefined
\* an empty message: {}
E_blank == Msg(Undefined, Undefined, Undefined, NoPayload, NoObj)

Envelopes == {E_75, E_50, E_two, E_abc, E_null, E_other, E_empty,
              E_otherNested}

\* everything the socket may hand to the mqtt_message handler, the
\* malformed deliveries included
Deliveries ==
  Envelopes \cup {E_nots, E_noppm, E_nonobj, E_badrecv, E_absent, E_blank}

StatusPayloads ==
  { StatusPayload(SN1, Undefined, Str(S_online)),
    StatusPayload(SN1, Undefined, Str(S_offline)),
    StatusPayload(SN1, Bool(TRUE), Undefined),
    StatusPayload(SN2, Undefined, Str(S_offline)),
    StatusPayload(SN2, Bool(TRUE), Undefined),
    StatusPayload(Undefined, Undefined, Str(S_online)) }

ThresholdMsgs ==
  { ThresholdMsg(SN1, Str(S_los_ppm), Num(50)),
    ThresholdMsg(SN1, Str(S_los_ppm), Str(<<"-", "1">>)),
    ThresholdMsg(SN1, Str(S_los_ppm), Str(S_abc)),
    ThresholdMsg(SN2, Str(S_los_ppm), Num(20)),
    ThresholdMsg(SN1, Str(K_temp), Num(20)) }

FetchResponses ==
  { FetchResponse("ok", TRUE, Num(50)),
    FetchResponse("ok", TRUE, Num(20)),
    FetchResponse("ok", TRUE, Undefined),
    FetchResponse("notok", FALSE, Undefined),
    FetchResponse("error", FALSE, Undefined) }

PingResponses ==
  { PingResponse("ok", Str(S_online), Undefined),
    PingResponse("ok", Str(S_offline), Undefined),
    PingResponse("notok", Undefined, Undefined),
    PingResponse("error", Undefined, Undefined) }

\* the history stays within the model's bound
HistRoom(msg) ==
  IF Ingested(msg, isFocusedRef)
  THEN Len(tableData) + Len(newPpmRows(msg)) <= MaxHist
  ELSE TRUE

Deliver(msg) == MqttMessage(msg) /\ HistRoom(msg)

Init == MainInit /\ GuardIdle /\ SocketInit /\ SettingsIdle /\ MoreIdle

\* the screen while its route and its view stay as they are; SpecSession has
\* the changes of route and view, and the unmount
Next ==
  \/ RunEffects
  \/ \E msg \in Envelopes : Deliver(msg)
  \/ \E p \in StatusPayloads : handlePingPayload(p)
  \/ \E m \in ThresholdMsgs : handleThresholdUpdated(m)
  \/ \E r \in FetchResponses : fetchThresholdDone(r)
  \/ \E r \in PingResponses : pingDone(r)
  \/ onFocus
  \/ onBlur
  \/ ClearPress

Spec == Init /\ [][Next]_vars

(***************************************************************************)
(* The same screen with the events at the edges of what the server may     *)
(* send: an mqtt_message event without a message or with a malformed one,  *)
(* and the other representations of a status and of a threshold.           *)
(***************************************************************************)
S_ONLINE == <<"O", "N", "L", "I", "N", "E">>
S_yes == <<"y", "e", "s">>

\* status payloads for the selected device with the other representations
\* of the status value
EdgeStatusPayloads ==
  { StatusPayload(SN1, Undefined, Str(S_ONLINE)),
    StatusPayload(SN1, Undefined, Str(S_true)),
    StatusPayload(SN1, Undefined, Str(<<"1">>)),
    StatusPayload(SN1, Undefined, Str(S_yes)),
    StatusPayload(SN1, Num(1), Undefined),
    StatusPayload(SN1, Num(2), Undefined),
    StatusPayload(SN1, Bool(FALSE), Str(S_online)),
    StatusPayload(SN1, Null, Null),
    StatusPayload(SN1, Undefined, Undefined),
    StatusPayload(SN1, Undefined, Obj) }

\* threshold pushes for this device and los_ppm whose threshold is null,
\* the empty text, or missing
BlankThresholdMsgs ==
  { ThresholdMsg(SN1, Str(S_los_ppm), Null),
    ThresholdMsg(SN1, Str(S_los_ppm), Str(<<>>)),
    ThresholdMsg(SN1, Str(S_los_ppm), Undefined) }

NextEdge ==
  \/ Next
  \/ \E p \in EdgeStatusPayloads : handlePingPayload(p)
  \/ \E m \in BlankThresholdMsgs : handleThresholdUpdated(m)
  \/ \E msg \in Deliveries \ Envelopes : Deliver(msg)

SpecEdge == Init /\ [][NextEdge]_vars

(***************************************************************************)
(* The screen over changes of its route and of its view: the route names   *)
(* another device or another host, the user presses the tabs, the screen   *)
(* unmounts, while events for both devices arrive and the requests made    *)
(* before a change are answered after it.                                  *)
(***************************************************************************)
Views == {"live", "alarms"}

SessionEnvelopes == {E_50, E_other}

SessionThresholdMsgs ==
  { ThresholdMsg(SN1, Str(S_los_ppm), Num(50)),
    ThresholdMsg(SN2, Str(S_los_ppm), Num(20)) }

NextSession ==
  \/ RunEffects
  \/ \E msg \in SessionEnvelopes : Deliver(msg)
  \/ \E p \in StatusPayloads : handlePingPayload(p)
  \/ \E m \in SessionThresholdMsgs : handleThresholdUpdated(m)
  \/ \E r \in FetchResponses : fetchThresholdDone(r)
  \/ \E r \in FetchResponses : fetchThresholdCancelled(r)
  \/ \E r \in PingResponses : pingDone(r)
  \/ \E r \in PingResponses : stalePingDone(r)
  \/ onFocus
  \/ onBlur
  \/ \E how \in {"unmounted", "changed", "host"} : Teardown(how)
  \/ \E view \in Views : TabPress(view)

SpecSession == Init /\ [][NextSession]_vars

(***************************************************************************)
(* The history at its capacity: the same handlers, fed with one envelope   *)
(* of three PPM keys and with no bound on the length of the history.       *)
(***************************************************************************)
K_ppmValue == <<"p", "p", "m", "V", "a", "l", "u", "e">>
E_three == FlatMsg(DateStr(1), Undefined, Undefined,
                   <<Entry(K_los_ppm, Num(75)), Entry(K_PPM, Num(20)),
                     Entry(K_ppmValue, Num(50))>>)

CapStatusPayloads ==
  { StatusPayload(SN1, Undefined, Str(S_online)),
    StatusPayload(SN1, Undefined, Str(S_offline)) }

NextCap ==
  \/ RunEffects
  \/ MqttMessage(E_three)
  \/ \E p \in CapStatusPayloads : handlePingPayload(p)
  \/ handleThresholdUpdated(ThresholdMsg(SN1, Str(S_los_ppm), Num(50)))
  \/ ClearPress

SpecCap == Init /\ [][NextCap]_vars

(***************************************************************************)
(* The guarded variant's specification.                                    *)
(***************************************************************************)
TsMsg(ts, entries) == Msg(Undefined, ts, Undefined, NoPayload, ObjOf(entries))

\* los_ppm = 75 with a server timestamp
G_ts == TsMsg(Num(7), <<Entry(K_los_ppm, Num(75))>>)
\* the same reading without any server timestamp
G_nots == TsMsg(Undefined, <<Entry(K_los_ppm, Num(75))>>)
\* two PPM keys, timestamp in payload.ts
G_two == Msg(Undefined, Undefined, Undefined,
             [Payload("obj", NoObj, Undefined, Undefined,
                      <<Entry(K_los_ppm, Num(20)), Entry(K_PPM, Num(75))>>)
                EXCEPT !.ts = Num(8)],
             NoObj)
\* an envelope that names another device
G_other == Msg(Undefined, Num(9), SN2, NoPayload,
               ObjOf(<<Entry(K_los_ppm, Num(75))>>))

GuardEnvelopes == {G_ts, G_nots, G_two, G_other}

g_HistRoom(msg) ==
  ~g_Handled(msg, g_isFocused)
  \/ Len(g_tableData) + Len(PpmEntries(paramsOf(msg))) <= MaxHist

g_Deliver(msg) == g_HistRoom(msg) /\ g_MqttMessage(msg)

MainIdle == MainInit

InitGuard == GuardInit /\ MainIdle /\ SocketInit /\ SettingsIdle /\ MoreIdle

NextGuard ==
  \/ \E msg \in GuardEnvelopes : g_Deliver(msg)
  \/ g_ClearPress
  \/ g_onFocus
  \/ g_onBlur
  \/ g_Tick

SpecGuard == InitGuard /\ [][NextGuard]_vars

(***************************************************************************)
(* The connectivity of the Main screen over the life of its socket: the    *)
(* status pushes, the pings, and the drops and reconnections of the        *)
(* transport; a press of a tab, or a route that names another host,        *)
(* replaces the socket by a new one.  Effects run and the manager's timers *)
(* fire; nothing obliges the user to press a tab.                          *)
(***************************************************************************)
NextSocket ==
  \/ RunEffects
  \/ \E p \in StatusPayloads : handlePingPayload(p)
  \/ \E r \in PingResponses : pingDone(r)
  \/ \E r \in FetchResponses : fetchThresholdDone(r)
  \/ Deliver(E_75)
  \/ onFocus
  \/ onBlur
  \/ SocketDrop
  \/ \E ok \in BOOLEAN : ReconnectAttempt(ok)
  \/ ReconnectGiveUp
  \/ \E view \in Views : TabPress(view)
  \/ Teardown("host")
  \/ \E r \in FetchResponses : fetchThresholdCancelled(r)

SpecSocket ==
  /\ Init
  /\ [][NextSocket]_vars
  /\ WF_vars(RunEffects)
  /\ WF_vars(\E ok \in BOOLEAN : ReconnectAttempt(ok))
  /\ WF_vars(ReconnectGiveUp)

(***************************************************************************)
(* The focus gate of the Main screen: the screen gains and loses focus     *)
(* while envelopes of one key, of two keys, of a text value and for        *)
(* another device arrive; status pushes, responses and Clear as in Spec.   *)
(***************************************************************************)
FocusEnvelopes == {E_75, E_two, E_abc, E_other}

NextFocus ==
  \/ RunEffects
  \/ \E msg \in FocusEnvelopes : Deliver(msg)
  \/ \E p \in CapStatusPayloads : handlePingPayload(p)
  \/ \E r \in FetchResponses : fetchThresholdDone(r)
  \/ \E r \in PingResponses : pingDone(r)
  \/ onFocus
  \/ onBlur
  \/ ClearPress

SpecFocus == Init /\ [][NextFocus]_vars

(***************************************************************************)
(* The Settings screen's specification.                                    *)
(***************************************************************************)
T_50 == <<"5", "0">>
T_pad == <<" ", "2", "0", " ">>
T_neg == <<"-", "5">>
T_blank == <<" ">>
T_5x == <<"5", "x">>

\* what the user may type
Texts == {<<>>, T_blank, T_50, T_pad, T_neg, S_abc, T_5x}

SettingsFetchResponse(kind, value) == [kind |-> kind, value |-> value]
SettingsFetchResponses ==
  { SettingsFetchResponse("ok", Num(20)),
    SettingsFetchResponse("ok", Undefined),
    SettingsFetchResponse("notok", Undefined),
    SettingsFetchResponse("error", Undefined) }

PutOutcomes == {"ok", "notok", "error"}

InitSettings == MainIdle /\ GuardIdle /\ SocketInit /\ SettingsIdle /\ MoreIdle

NextSettings ==
  \/ \E f \in BOOLEAN : s_Open(f)
  \/ \E r \in SettingsFetchResponses : s_fetchLosPpmDone(r)
  \/ \E t \in Texts : s_ChangeText(t)
  \/ s_handleSave
  \/ \E k \in PutOutcomes : s_putDone(k)
  \/ s_Cancel

SpecSettings == InitSettings /\ [][NextSettings]_vars

(***************************************************************************)
(* The root component's specification.                                     *)
(***************************************************************************)
AppTokens == {"throw", "", "t1"}

InitApp == MainIdle /\ GuardIdle /\ SocketInit /\ SettingsIdle /\ MoreIdle

NextApp ==
  \/ a_Mount
  \/ a_Foreground
  \/ \E c \in 1..Len(a_calls), ok \in BOOLEAN : a_PermissionDone(c, ok)
  \/ \E c \in 1..Len(a_calls), ok \in BOOLEAN : a_RegisterDone(c, ok)
  \/ \E c \in 1..Len(a_calls), r \in AppTokens : a_TokenDone(c, r)
  \/ \E c \in 1..Len(a_calls) : a_SendDone(c)
  \/ a_TokenRefresh("t2")
  \/ a_RemoteMessage
  \/ a_Unmount
  \/ a_Tick

SpecApp == InitApp /\ [][NextApp]_vars

(***************************************************************************)
(* The graph's specifications: the parent appends readings to              *)
(* externalData, slides it as a window of constant length, or replaces it  *)
(* by a shorter array; clear() is called at any time.                      *)
(***************************************************************************)
D_value == Datum(DateStr(0), Undefined, Num(10), Undefined, Undefined)
D_row == Datum(Undefined, DateStr(46861), Undefined, Str(<<"1", "2">>), Num(12))
D_text == Datum(Null, Str(S_abc), Undefined, Str(S_abc), Undefined)

Data == {D_value, D_row, D_text, NullDatum}

\* the arrays the parent may pass next, its new readings taken from S
Appended(S) == IF Len(p_externalData) < MaxExt
               THEN {Append(p_externalData, d) : d \in S} ELSE {}
Shifted(S) == IF p_externalData # <<>>
              THEN {Append(Tail(p_externalData), d) : d \in S} ELSE {}
Shrunk == IF p_externalData # <<>>
          THEN {<<>>, SliceLast(p_externalData, 1)} \ {p_externalData} ELSE {}
\* a render that passes another array of the same readings (or the same
\* array with another newestOnLeft): the dependencies differ, so the effect
\* runs again
Rerendered == {p_externalData}

InitGraph == MainIdle /\ GuardIdle /\ SocketInit /\ SettingsIdle /\ MoreIdle

NextGraph ==
  \/ \E next \in Appended(Data) : p_externalDataChanged(next)
  \/ \E next \in Shifted(Data) : p_externalDataChanged(next)
  \/ \E next \in Shrunk : p_externalDataChanged(next)
  \/ \E next \in Rerendered : p_externalDataChanged(next)
  \/ p_clear

SpecGraph == InitGraph /\ [][NextGraph]_vars

\* the buffered variant; the interval keeps firing while the graph is
\* mounted
BufferedData == {D_value, D_row, NullDatum}

NextBuffered ==
  \/ \E next \in Appended(BufferedData) : b_externalDataChanged(next)
  \/ \E next \in Shifted(BufferedData) : b_externalDataChanged(next)
  \/ \E next \in Shrunk : b_externalDataChanged(next)
  \/ \E next \in Rerendered : b_externalDataChanged(next)
  \/ b_flushTick
  \/ b_clear

SpecBuffered == InitGraph /\ [][NextBuffered]_vars /\ WF_vars(b_flushTick)

(***************************************************************************)
(* The entry module's specification.                                       *)
(***************************************************************************)
RequestResults == {"granted", "denied", "error"}

InitIndex == MainIdle /\ GuardIdle /\ SocketInit /\ SettingsIdle /\ MoreIdle

NextIndex ==
  \/ \E platform \in Platforms : i_ColdStart(platform)
  \/ i_Foreground
  \/ \E result \in RequestResults : i_RequestDone(result)
  \/ i_AlertCancel
  \/ i_AlertOpenSettings
  \/ \E deadline \in BagToSet(i_timers) : i_TimerFires(deadline)
  \/ i_Tick

SpecIndex == InitIndex /\ [][NextIndex]_vars

(***************************************************************************)
(* Claims.                                                                 *)
(***************************************************************************)
\* C1: the reading history holds at most N = 1000 entries in every reachable
\* state, also when one envelope carries several PPM keys.
C1_HistoryWithinCapacity == Len(tableData) <= N

\* the history is full and the last envelope, of three keys, was cut by the
\* capacity (N is not a multiple of three)
C1_Witness ==
  /\ Len(tableData) = N
  /\ lastIngest.msg = E_three
  /\ tableData[N].rawKey = K_los_ppm

\* C2: in every settled state where the selected device is offline, the
\* indicator is Offline (gray), the current value is null and the history is
\* empty.
C2_OfflineShowsNothing ==
  (Settled /\ ~IsOnline) =>
    (indicatorColor = GRAY /\ losReading = Null /\ tableData = <<>>)

\* C3: when a status event changes connectivity from online to offline while
\* the history holds readings, the current value becomes null, the indicator
\* gray and the history empty in the same transition: no state shows the
\* device offline with the old value or the old rows.
C3_OfflineResetIsAtomic ==
  [][(IsOnline /\ lastIngest.online /\ tableData # <<>> /\ ~IsOnline') =>
       (indicatorColor' = GRAY /\ losReading' = Null /\ tableData' = <<>>)]_vars

\* C4: while the threshold is null and the device is online, the indicator
\* is never in the Alarm (red) state.
C4_NoAlarmWithoutThreshold ==
  (Settled /\ IsOnline /\ threshold = Null) => indicatorColor # ALARM_RED

\* C5: in every settled state where the device is online, the threshold T is
\* a number and the current reading V is a number, the indicator is Alarm
\* exactly when V > T and Ok otherwise (V = T is Ok).
C5_IndicatorMatchesThreshold ==
  (Settled /\ IsOnline /\ threshold.t = "num" /\ losReading.t = "num") =>
    indicatorColor = IF losReading.n > threshold.n THEN ALARM_RED ELSE GREEN

\* the tie: a reading of 50 was accepted against the threshold 50 and the
\* indicator is Ok
C5_Witness ==
  /\ Settled /\ IsOnline
  /\ threshold = Num(50) /\ losReading = Num(50)
  /\ lastIngest.msg = E_50 /\ lastIngest.online
  /\ indicatorColor = GREEN

\* the rows whose stored numeric value exceeds the threshold
RowsAbove(rows, thr) ==
  SelectSeq(rows, LAMBDA row :
    normalizePpmValue(row.rawValue) # Null
    /\ normalizePpmValue(row.rawValue).n > thr.n)

\* C6: for a numeric threshold T the alarm view is exactly the subsequence
\* of the history entries whose numeric value V satisfies V > T.
C6_AlarmsAreRowsAboveThreshold ==
  threshold.t = "num" => alarms(tableData, threshold) = RowsAbove(tableData, threshold)

\* C7: the threshold is null or a number; while it is null the alarm view
\* is the "Threshold not set" state, whatever the history contains, which
\* differs from the empty "No alarms" list; while it is a number the view is
\* the value-filtered list.
C7_UnconfiguredIsExplicit ==
  /\ threshold = Null \/ threshold.t = "num"
  /\ threshold = Null =>
       /\ AlarmView(tableData, threshold).kind = "Threshold not set"
       /\ AlarmView(tableData, threshold) # [kind |-> "list", rows |-> <<>>]
  /\ threshold # Null =>
       AlarmView(tableData, threshold) =
         [kind |-> "list", rows |-> alarms(tableData, threshold)]

\* the threshold is null while the history holds a reading
C7_Witness == Settled /\ threshold = Null /\ tableData # <<>>

\* C8: every operation that changes the threshold value leaves the history
\* empty.
C8_ThresholdChangeClearsHistory ==
  [][threshold' # threshold => tableData' = <<>>]_vars

\* how many readings of key k the last run of deliveries accepted
g_AcceptedCount(k) ==
  Cardinality({i \in 1..Len(g_last.accepted) : g_last.accepted[i] = k})

\* C9: feeding the same raw envelope twice while the screen is focused, the
\* two deliveries having the same fingerprint (and no reading of that
\* fingerprint accepted before), results in exactly one reading accepted
\* into the history for each PPM key of the envelope.
C9_TwiceIsOnce ==
  (g_last.n = 2 /\ g_last.fresh) =>
    \A i \in 1..Len(PpmEntries(paramsOf(g_last.msg))) :
      g_AcceptedCount(PpmEntries(paramsOf(g_last.msg))[i].k) = 1

\* the fingerprint of a row: key, raw value and server timestamp (the device
\* is the session's)
RowFingerprint(row) == <<row.rawKey, row.rawValue, row.TIMESTAMP>>
CountRows(rows, fp) ==
  Cardinality({i \in 1..Len(rows) : RowFingerprint(rows[i]) = fp})

\* the same envelope is ingested a second time, both times with the screen
\* focused and the device online, no other event in between
SecondDelivery(msg) ==
  /\ lastIngest.msg = msg /\ lastIngest.online
  /\ IsOnline /\ isFocusedRef
  /\ Deliver(msg)

\* C10: when the same envelope is delivered twice while the screen is
\* focused and the device is online, the history contains exactly one entry
\* for it.
C10_OneEntryPerEnvelope ==
  [][\A msg \in Envelopes : SecondDelivery(msg) =>
       \A i \in 1..Len(newPpmRows(msg)) :
         CountRows(tableData', RowFingerprint(newPpmRows(msg)[i])) = 1]_vars

\* C10 as amended: Main.js keeps no replay guard and every delivery adds its
\* rows: the second delivery of an envelope adds one more entry for each of
\* its PPM keys to the entries the first delivery left.
C10_OneEntryPerDelivery ==
  [][\A msg \in Envelopes : SecondDelivery(msg) =>
       \A i \in 1..Len(newPpmRows(msg)) :
         /\ CountRows(tableData, RowFingerprint(newPpmRows(msg)[i])) >= 1
         /\ CountRows(tableData', RowFingerprint(newPpmRows(msg)[i])) =
              CountRows(tableData, RowFingerprint(newPpmRows(msg)[i])) + 1]_vars

\* the envelope was delivered twice and the history holds two entries for it
C10_Witness ==
  /\ lastIngest.msg = E_75 /\ lastIngest.online
  /\ IsOnline /\ isFocusedRef
  /\ Len(tableData) = 2
  /\ RowFingerprint(tableData[1]) = RowFingerprint(tableData[2])

\* C11: after a Clear, no reading that was visible at a Clear is ever visible
\* again: redelivering its envelope does not put it back into the history.
C11_ClearedNeverReturns == g_audit.visible \cap g_audit.cleared = {}

\* the entries of msg that the guard accepts in the current state when the
\* skip flag is `skip`: those whose fingerprint is in neither set
g_NewEntries(msg, skip) ==
  LET es == PpmEntries(paramsOf(msg))
  IN SelectSeq([i \in 1..Len(es) |-> [i |-> i, e |-> es[i]]],
               LAMBDA x : /\ ~(skip /\ x.i = 1)
                          /\ entryFingerprint(msg, x.e, g_now) \notin g_clearedSet
                          /\ entryFingerprint(msg, x.e, g_now) \notin g_seenSet)

g_RowFingerprints(rows) == {rows[i]._fingerprint : i \in 1..Len(rows)}

\* C12: the first envelope handled after a Clear, when it is genuinely new
\* (no fingerprint of it was seen or cleared), appears in the history and
\* updates the indicator.
C12_FirstNewAfterClearAccepted ==
  [][\A msg \in GuardEnvelopes :
       (/\ g_audit.afterClear /\ g_audit.cleared # {}
        /\ g_Deliver(msg) /\ g_Handled(msg, g_isFocused)
        /\ Len(g_NewEntries(msg, FALSE)) = Len(PpmEntries(paramsOf(msg)))
        /\ PpmEntries(paramsOf(msg)) # <<>>)
       => /\ \A i \in 1..Len(PpmEntries(paramsOf(msg))) :
               entryFingerprint(msg, PpmEntries(paramsOf(msg))[i], g_now)
                 \in g_RowFingerprints(g_tableData')
          /\ g_tableData' # <<>>]_vars

\* C12 as amended: the skip flag armed by Clear (or by focus) discards the
\* first PPM reading handled; every other reading of a handled envelope whose
\* fingerprint is in neither SeenSet nor ClearedSet is accepted: its row is
\* prepended to the history, the last of them becomes the current value, and
\* nothing else is added.
C12_NewAcceptedAfterSkip ==
  [][\A msg \in GuardEnvelopes :
       (g_Deliver(msg) /\ g_Handled(msg, g_isFocused))
       => LET new == g_NewEntries(msg, g_skipFirst)
          IN /\ Len(g_tableData') = Len(g_tableData) + Len(new)
             /\ \A j \in 1..Len(new) :
                  /\ g_tableData'[j]._fingerprint =
                       entryFingerprint(msg, new[j].e, g_now)
                  /\ g_tableData'[j].rawValue = new[j].e.v
             /\ new # <<>> =>
                  g_losReading' = g_tableData'[Len(new)].VALUE
             /\ (PpmEntries(paramsOf(msg)) # <<>> /\ g_skipFirst) => ~g_skipFirst']_vars

\* after a Clear the first new envelope was consumed by the skip flag and a
\* second new envelope is now at the head of the history
C12_Witness ==
  /\ g_audit.cleared # {} /\ ~g_audit.afterClear
  /\ g_last.n = 1 /\ g_last.fresh /\ g_last.accepted # <<>>
  /\ g_tableData # <<>>
  /\ g_tableData[1]._fingerprint \notin g_clearedSet
  /\ g_losReading = g_tableData[1].VALUE

\* C13: after an envelope that yields at least one accepted reading, the
\* indicator's current value is the value of the entry at the head of the
\* history.
C13_LatestValueIsHead ==
  [][\A msg \in Envelopes :
       (IsOnline /\ Deliver(msg) /\ Ingested(msg, isFocusedRef)
        /\ newPpmRows(msg) # <<>>)
       => losReading' = tableData'[1].VALUE]_vars

RECURSIVE Reverse(_)
Reverse(seq) == IF seq = <<>> THEN <<>> ELSE Append(Reverse(Tail(seq)), Head(seq))

\* C14: the history is newest-first by acceptance order and never reordered:
\* every step leaves the history as it is, empties it, or puts the readings
\* of one envelope in front of it, the reading accepted last nearest the head.
C14_NewestFirstByAcceptance ==
  [][\/ tableData' = tableData
     \/ tableData' = <<>>
     \/ \E msg \in Envelopes :
          /\ Ingested(msg, isFocusedRef)
          /\ tableData' = Slice(Reverse(newPpmRows(msg)) \o tableData, N)]_vars

\* C15: a threshold refresh that fails while the session is live (a network
\* error or a non-success status) sets the threshold, and the reference the
\* handlers read, to null whatever the previous value; and an envelope
\* delivered afterwards is ingested as usual.
C15_FailedRefreshClearsThreshold ==
  [][/\ \A r \in FetchResponses :
          (Live /\ r.kind # "ok" /\ fetchThresholdDone(r))
          => threshold' = Null /\ thresholdRef' = Null
     /\ \A msg \in Envelopes :
          (lastIngest.fetchFailed /\ Deliver(msg) /\ Ingested(msg, isFocusedRef))
          => /\ tableData' = Prepend(newPpmRows(msg), tableData)
             /\ threshold' = Null]_vars

\* a refresh failed while a threshold was set, the threshold is null and an
\* envelope delivered after the failure is in the history
C15_Witness ==
  /\ lastIngest.fetchFailed /\ lastIngest.msg = E_75
  /\ threshold = Null /\ thresholdRef = Null
  /\ tableData # <<>> /\ tableData[1].rawValue = Num(75)

\* C16: once the effects of a session have been cleaned up, because the
\* screen unmounted or the route named another device, no callback that was
\* pending at that moment changes the state: not the response of a cancelled
\* threshold fetch, not the response of a ping made for the previous device,
\* and nothing at all after the unmount.  The history, the connectivity, the
\* current value, the indicator colour and the threshold stay as they were.
C16_NoMutationAfterTeardown ==
  [][(\/ ~Live
      \/ \E r \in FetchResponses : fetchThresholdCancelled(r)
      \/ \E r \in PingResponses : stalePingDone(r))
     => UNCHANGED <<tableData, connectionState, indicatorColor, losReading,
                    threshold, thresholdRef>>]_vars

\* the device an envelope names: its top-level serial_number, else the
\* payload's serial_number or serial
NamedDevice(msg) ==
  IF ~Nullish(msg.serial_number) THEN msg.serial_number
  ELSE IF msg.payload.kind # "obj" THEN Undefined
  ELSE IF Truthy(msg.payload.serial_number) THEN msg.payload.serial_number
  ELSE msg.payload.serial

\* C17: an out-of-scope event changes nothing: a status event naming another
\* device or no device, an envelope naming another device, a threshold push
\* for another device or for an indicator other than los_ppm each leave the
\* connectivity, the history, the current value, the indicator colour and the
\* threshold unchanged.
C17_OutOfScopeChangesNothing ==
  [][\/ UNCHANGED <<connectionState, tableData, losReading, indicatorColor,
                    threshold, thresholdRef, pending>>
     \/ ~(\/ \E p \in StatusPayloads :
               /\ p.serial_number # serialNumber
               /\ handlePingPayload(p)
          \/ \E msg \in Envelopes :
               /\ NamedDevice(msg) = otherSerial
               /\ Deliver(msg)
          \/ \E m \in ThresholdMsgs :
               /\ m.serial_number # serialNumber \/ m.indicator # Str(S_los_ppm)
               /\ handleThresholdUpdated(m))]_vars


\* an out-of-scope event has just been handled on a screen that is online,
\* has a threshold and shows a history
C17_Witness ==
  /\ lastIngest.note = "scope"
  /\ IsOnline
  /\ threshold # Null
  /\ tableData # <<>>


\* the malformed deliveries: no message, an empty message, a message with
\* neither payload nor params, params that are not an object, no PPM key
Malformed == {E_absent, E_blank, E_empty, E_nonobj, E_noppm}

\* C18: a malformed envelope is dropped: the handler raises no error and
\* leaves the history, the current value, the indicator, the connectivity
\* and the threshold as they were, so that the next well-formed envelope
\* meets the state it would have met without it.
C18_MalformedDropped ==
  [][\A msg \in Malformed :
       Deliver(msg) =>
         /\ lastIngest'.note # "threw"
         /\ UNCHANGED <<tableData, losReading, losReadingRef, indicatorColor,
                        connectionState, threshold, thresholdRef, pending>>]_vars


\* whether a timestamp field yields a valid instant, and the instant
FieldInstant(v, numeric) ==
  IF Nullish(v) THEN NaN
  ELSE IF numeric THEN DateOf(ToNumber(v)) ELSE DateOf(v)

ServerInstant(msg) ==
  IF ~NumberIsNaN(FieldInstant(msg.received_at, FALSE))
  THEN FieldInstant(msg.received_at, FALSE)
  ELSE FieldInstant(msg.ts, TRUE)

\* C19: an envelope that passes the other tests of the handler is
\* discarded without a state change when neither received_at nor ts yields
\* a valid instant, and is ingested when either does: then every one of
\* its PPM readings becomes a history entry stamped with that server
\* instant.
C19_TimestampPolicy ==
  [][\A msg \in Deliveries \ {E_absent} :
       (/\ isFocusedRef
        /\ paramsOf(msg).kind = "obj"
        /\ ~ForOtherDevice(msg)
        /\ Deliver(msg))
       => IF NumberIsNaN(ServerInstant(msg))
          THEN UNCHANGED <<tableData, losReading, losReadingRef,
                           indicatorColor, connectionState, threshold,
                           thresholdRef, pending>>
          ELSE LET k == Len(PpmEntries(paramsOf(msg)))
               IN /\ Len(tableData') = Len(tableData) + k
                  /\ \A i \in 1..k :
                       tableData'[i].TIMESTAMP = DateStr(ServerInstant(msg).n)]_vars


\* C20: when the response of a status poll of the live session is a
\* network error or a non-success status, the connectivity of the selected
\* device becomes offline.
C20_FailedPollMeansOffline ==
  [][\A r \in PingResponses :
       (Live /\ r.kind # "ok" /\ pingDone(r))
       => connectionState'.color = STATUS_RED]_vars


\* C21: once the socket has used up its reconnection attempts, the session
\* eventually shows the device as offline: the connectivity is offline and
\* the indicator is Offline (gray), unless that socket is replaced by a new
\* one first.
C21_ExhaustedReconnectMeansOffline ==
  [](socket.failed =>
       <>(~socket.failed \/ (~IsOnline /\ indicatorColor = GRAY)))


\* a decimal numeral: an optional sign and at least one digit
IsNumeral(u) ==
  LET d == IF u # <<>> /\ Head(u) \in {"-", "+"} THEN Tail(u) ELSE u
  IN d # <<>> /\ \A i \in 1..Len(d) : IsDigit(d[i])

\* a text that is neither blank (no threshold) nor a number
NonNumericText(t) == Trim(t) # <<>> /\ ~IsNumeral(Trim(t))

\* C22: Submit with a text that is not a number shows the validation alert
\* and mutates nothing: no PUT is sent, onUpdate is not invoked, the screen
\* stays open and the saving flag stays false.  (A blank text is not an
\* edit to a non-number: it asks for no threshold.)
C22_InvalidTextRejected ==
  [][(NonNumericText(s_losPpm) /\ s_handleSave)
     => /\ s_log'.alert = "Invalid value"
        /\ ~s_log'.put /\ ~s_log'.updated /\ ~s_log'.back
        /\ s_put' = s_put /\ ~s_put'.inflight
        /\ s_open'
        /\ ~s_saving'
        /\ s_losPpm' = s_losPpm]_vars

\* Submit was pressed on the text "abc" and the alert is up
C22_Witness ==
  /\ s_log.alert = "Invalid value"
  /\ s_losPpm = S_abc
  /\ s_open /\ ~s_saving /\ ~s_put.inflight

\* C23: when the PUT fails (a network error or a non-success status) the
\* "Save failed" alert is shown, onUpdate is not invoked, the screen stays
\* open with the entered text and the saving flag is false again; onUpdate
\* and the navigation back after a Submit happen only in the step that
\* receives a successful response.
C23_FailedSaveIsRetryable ==
  [][/\ \A k \in PutOutcomes \ {"ok"} :
          s_putDone(k)
          => /\ s_log'.alert = "Save failed"
             /\ ~s_log'.updated /\ ~s_log'.back
             /\ s_open'
             /\ s_losPpm' = s_losPpm
             /\ ~s_saving'
     /\ (s_log'.updated /\ ~s_log.updated) => s_putDone("ok")
     /\ (s_log'.put /\ s_log'.back /\ ~s_log.back) => s_putDone("ok")]_vars

\* the PUT of the threshold 50 has failed and the screen waits for a retry
C23_Witness ==
  /\ s_log.alert = "Save failed"
  /\ s_log.put
  /\ s_put.body = Num(50)
  /\ s_losPpm = T_50
  /\ s_open /\ ~s_saving


\* C24: Clear puts into ClearedSet the fingerprint that the guard gave, at
\* ingestion, to every row that is visible when it is pressed.
C24_ClearSnapshotsIngestionFingerprints ==
  [][g_ClearPress => g_RowFingerprints(g_tableData) \subseteq g_clearedSet']_vars

\* C25: a handled envelope that meets the armed skip flag uses it up exactly
\* when it carries a reading the guard would have accepted (one in neither
\* SeenSet nor ClearedSet), and then loses exactly one such reading; an
\* envelope of duplicates and replays leaves the flag armed.
C25_SkipConsumesOneAcceptable ==
  [][\A msg \in GuardEnvelopes :
       (g_skipFirst /\ g_Deliver(msg) /\ g_Handled(msg, g_isFocused))
       => LET acceptable == g_NewEntries(msg, FALSE)
          IN IF acceptable = <<>>
             THEN g_skipFirst' /\ g_tableData' = g_tableData
             ELSE /\ ~g_skipFirst'
                  /\ Len(g_tableData') = Len(g_tableData) + Len(acceptable) - 1]_vars

\* C26: two deliveries of one envelope get the same fingerprints, whatever
\* the moments at which they arrive.
C26_FingerprintIgnoresArrival ==
  [][\A msg \in GuardEnvelopes :
       (g_last.n > 0 /\ g_last.msg = msg
        /\ g_Deliver(msg) /\ g_Handled(msg, g_isFocused))
       => g_Fingerprints(msg, g_now) = g_last.fps]_vars


\* C27: a row whose raw value has no numeric conversion is in the alarm view
\* for no threshold.
C27_NonNumericNeverAlarm ==
  threshold # Null =>
    \A i \in 1..Len(alarms(tableData, threshold)) :
      normalizePpmValue(alarms(tableData, threshold)[i].rawValue) # Null

\* the value of the last PPM reading of an envelope
LastReading(msg) ==
  PpmEntries(paramsOf(msg))[Len(PpmEntries(paramsOf(msg)))].v

\* C28: in every settled state where the device is online and the reading
\* accepted last (no other event since) is non-numeric, the indicator is
\* Ok (green).
C28_NonNumericReadingIsOk ==
  (/\ Settled /\ IsOnline
   /\ lastIngest.note = "" /\ lastIngest.msg # NoMsg /\ lastIngest.online
   /\ normalizePpmValue(LastReading(lastIngest.msg)) = Null)
  => indicatorColor = GREEN


\* the status value of a payload: the first of online, isOnline, is_online,
\* status and up that is present
StatusValue(p) ==
  IF ~Nullish(p.online) THEN p.online
  ELSE IF ~Nullish(p.isOnline) THEN p.isOnline
  ELSE IF ~Nullish(p.is_online) THEN p.is_online
  ELSE IF ~Nullish(p.status) THEN p.status
  ELSE p.up

\* the representations of online: "online", "true", "1" in any case, the
\* number 1, the boolean true
MeansOnline(v) ==
  \/ v.t = "str" /\ ToLowerCase(v.s) \in {S_online, S_true, <<"1">>}
  \/ v = Num(1)
  \/ v = Bool(TRUE)

\* C29: a status payload addressed to the selected device makes the
\* connectivity online exactly when its status value is one of the
\* representations of online, and offline for every other value.
C29_StatusCoercion ==
  [][\A p \in StatusPayloads \cup EdgeStatusPayloads :
       (p.serial_number = serialNumber /\ handlePingPayload(p))
       => connectionState'.color =
            IF MeansOnline(StatusValue(p)) THEN GREEN ELSE STATUS_RED]_vars


\* C30: an envelope delivered while the screen is not focused changes
\* neither the history nor the current value nor the indicator; the history
\* only ever grows by the readings of the envelope being delivered, while
\* the screen is focused (nothing delivered during a blur is added later);
\* and an envelope delivered while focused is ingested.
C30_FocusGatesIngestion ==
  [][/\ \A msg \in FocusEnvelopes :
          (~isFocusedRef /\ Deliver(msg))
          => UNCHANGED <<tableData, losReading, losReadingRef, indicatorColor,
                         pending>>
     /\ Len(tableData') > Len(tableData)
          => /\ isFocusedRef
             /\ \E msg \in FocusEnvelopes :
                  /\ Deliver(msg)
                  /\ tableData' = Prepend(newPpmRows(msg), tableData)
     /\ \A msg \in FocusEnvelopes :
          (isFocusedRef /\ Ingested(msg, TRUE) /\ Deliver(msg))
          => tableData' = Prepend(newPpmRows(msg), tableData)]_vars

\* an envelope has just been dropped by the focus gate of a blurred screen
\* that is online and shows a history
C30_Witness ==
  /\ lastIngest.note = "focus"
  /\ ~isFocusedRef
  /\ Settled /\ IsOnline
  /\ tableData # <<>>

\* C31: ensureRegistered is safe to call multiple times: under any
\* interleaving of its invocations at most one foreground-message handler and
\* at most one token-refresh handler are subscribed at any time, and the
\* unmount leaves no handler subscribed.
C31_SingleSubscription ==
  /\ [](Cardinality(a_messageSubs) <= 1 /\ Cardinality(a_tokenSubs) <= 1)
  /\ [][a_Unmount => a_messageSubs' = {} /\ a_tokenSubs' = {}]_vars

\* the newest k elements of a list
Newest(seq, k) ==
  IF Len(seq) <= k THEN seq ELSE SubSeq(seq, Len(seq) - k + 1, Len(seq))

\* C32: whenever externalData changes, by gaining readings or by sliding as a
\* window of constant length, the graph's points are the last maxPoints
\* readings of the new externalData, in order.
C32_GraphFollowsExternalData ==
  [][p_externalData' # p_externalData =>
       /\ p_valuesAll' = p_Values(Newest(p_externalData', maxPoints))
       /\ p_timesAll' = p_Times12(Newest(p_externalData', maxPoints))]_vars

\* C33: in the buffered graph the points on display followed by the points
\* in the buffer are the newest points that arrived since the last clear()
\* or replace, once each and in arrival order, and a buffer that holds points
\* is eventually flushed or discarded.
C33_BufferedPointsShownOnce ==
  /\ [](LET held == p_valuesAll \o p_bufferValues
        IN /\ Len(held) <= Len(p_arrived)
           /\ held = SubSeq(p_arrived, Len(p_arrived) - Len(held) + 1,
                            Len(p_arrived))
           /\ Len(p_arrived) <= maxPoints => held = p_arrived
           /\ Len(p_valuesAll) <= maxPoints
           /\ Len(p_bufferTimes) = Len(p_bufferValues)
           /\ Len(p_timesAll) = Len(p_valuesAll))
  /\ (p_bufferValues # <<>>) ~> (p_bufferValues = <<>>)

\* C33 witness: new data arrived after a flush put a full list on display.
C33_Witness ==
  /\ Len(p_valuesAll) = maxPoints
  /\ p_bufferValues # <<>>
  /\ p_arrived = p_valuesAll \o p_bufferValues

\* the reading a point was made of
PointOf(time, value) ==
  \E d \in Data : /\ time = formatSmallTime12(mapDatumToPoint(d).ts)
                  /\ value = mapDatumToPoint(d).value

\* C37: the times and the values have the same length, at most maxPoints,
\* position i of both is one reading, and a step that adds points keeps the
\* newest maxPoints of the old points followed by the added ones.
C37_TimesAndValuesAligned ==
  /\ [](/\ Len(p_timesAll) = Len(p_valuesAll)
        /\ Len(p_valuesAll) <= maxPoints
        /\ \A i \in 1..Len(p_valuesAll) : PointOf(p_timesAll[i], p_valuesAll[i]))
  /\ [][\/ p_valuesAll' = <<>> /\ p_timesAll' = <<>>
        \/ \E k \in 0..Len(p_externalData') :
             LET added == Newest(p_externalData', k)
             IN /\ p_valuesAll' =
                     Newest(p_valuesAll \o p_Values(added), maxPoints)
                /\ p_timesAll' =
                     Newest(p_timesAll \o p_Times12(added), maxPoints)
        \/ /\ p_valuesAll' = p_Values(Newest(p_externalData', maxPoints))
           /\ p_timesAll' = p_Times12(Newest(p_externalData', maxPoints))]_vars

\* C37 witness: the lists are full and older points have been dropped.
C37_Witness ==
  /\ Len(p_valuesAll) = maxPoints
  /\ p_lastExternalLen > maxPoints
  /\ p_bufferValues = <<>> /\ p_arrived = <<>>

\* C34: while a system permission request or the 'Enable Notifications' alert
\* is in progress, no other request or alert is started: at most one prompt
\* is in progress at any time.
C34_OnePromptAtATime == i_requests + i_alerts <= 1

\* C35: a threshold push for this device and los_ppm whose threshold field is
\* null, empty or absent leaves the threshold null, never the number 0.
C35_BlankPushMeansNoThreshold ==
  [][\A m \in BlankThresholdMsgs :
       handleThresholdUpdated(m) => threshold' = Null]_vars

\* C36: a refresh response whose request was issued before a threshold push
\* was applied does not overwrite the pushed value.
C36_StaleRefreshKeepsPushedValue ==
  [][\A r \in FetchResponses :
       (lastIngest.note = "pushed" /\ threshold # Null /\ fetchThresholdDone(r))
         => threshold' = threshold]_vars

=============================================================================
